---- MODULE Spec2Model ----
(***************************************************************************)
(* Authentication and authorization core of the e-commerce backend:        *)
(* helper/authHelpers.js (token issue/verify, verifyToken and               *)
(* checkAdminOrOwner middleware) and routes/userRoutes.js (the user         *)
(* routes that compose them).                                               *)
(*                                                                          *)
(* Strings the code inspects character by character (usernames, phones,    *)
(* passwords, e-mails) are sequences of one-character strings.              *)
(* Time is counted in seconds, as jsonwebtoken counts it.                   *)
(***************************************************************************)
EXTENDS Integers, Sequences, FiniteSets, TLC

VARIABLES
  users,    \* the identity store: function from the ids of stored identities to their documents
  orders,   \* ids of the identities that own at least one order (OrderModel)
  NODE_ENV, \* process.env.NODE_ENV of the server process
  unit,     \* a call of hashPassword followed by one of checkPassword, outside any request
  clock,    \* Math.floor(Date.now() / 1000)
  ticks,    \* number of times the clock has been advanced
  issued,   \* the tokens signed with JWT_SECRET that clients still hold
  client,   \* the browser that receives the responses: its session cookie
  posts,    \* the POST /signup and POST /authWithGoogle requests in flight
  pc,       \* position of the request in flight in its middleware chain
  req,      \* the request in flight (route, params.id, cookies.token, authorization, body, req.user)
  res,      \* its response (status, message, session cookie operation)
  mw        \* history of the request in flight: what ran, what verifyToken did

vars == <<users, orders, NODE_ENV, unit, clock, ticks, issued, client, posts, pc, req, res, mw>>

----------------------------------------------------------------------------
(* Bounds of the model *)

MaxTicks == 2
MaxIssued == 1

----------------------------------------------------------------------------
(* Time *)

Hour == 3600
HalfHour == Hour \div 2
Day == 24 * Hour
\* expiresIn "7d"
SevenDays == 7 * Day
\* process.env.TOKEN_EXPIRATION || "1h"
TokenExpiration == Hour
\* amounts by which the clock is advanced
TickSteps == {HalfHour, 6 * Day, Day}

----------------------------------------------------------------------------
(* Character strings *)

Digits == {"0", "1", "2", "3", "4", "5", "6", "7", "8", "9"}
Lower == {"a", "b", "c", "d", "e", "f", "g", "h", "i", "j", "k", "l", "m",
          "n", "o", "p", "q", "r", "s", "t", "u", "v", "w", "x", "y", "z"}
Upper == {"A", "B", "C", "D", "E", "F", "G", "H", "I", "J", "K", "L", "M",
          "N", "O", "P", "Q", "R", "S", "T", "U", "V", "W", "X", "Y", "Z"}
\* the class [!@#$%^&*(),.?":{}|<>] of isValidPassword
Special == {"!", "@", "#", "$", "%", "^", "&", "*", "(", ")", ",", ".", "?",
            "\"", ":", "{", "}", "|", "<", ">"}

\* the letters, capital and small
Alphabet ==
  << <<"A", "a">>, <<"B", "b">>, <<"C", "c">>, <<"D", "d">>, <<"E", "e">>,
     <<"F", "f">>, <<"G", "g">>, <<"H", "h">>, <<"I", "i">>, <<"J", "j">>,
     <<"K", "k">>, <<"L", "l">>, <<"M", "m">>, <<"N", "n">>, <<"O", "o">>,
     <<"P", "p">>, <<"Q", "q">>, <<"R", "r">>, <<"S", "s">>, <<"T", "t">>,
     <<"U", "u">>, <<"V", "v">>, <<"W", "w">>, <<"X", "x">>, <<"Y", "y">>,
     <<"Z", "z">> >>
\* String.prototype.toLowerCase
ToLowerCase(s) ==
  [i \in 1..Len(s) |->
     IF \E k \in DOMAIN Alphabet : Alphabet[k][1] = s[i]
     THEN Alphabet[CHOOSE k \in DOMAIN Alphabet : Alphabet[k][1] = s[i]][2]
     ELSE s[i]]
\* s.split(" ").join("")
IsNoBlank(c) == c # " "
RemoveBlanks(s) == SelectSeq(s, IsNoBlank)

Range(s) == {s[i] : i \in 1..Len(s)}
AllIn(s, C) == \A i \in 1..Len(s) : s[i] \in C
\* the empty string, also standing for an absent (undefined) string field:
\* the code only tests such fields for truthiness
Empty == <<>>
Truthy(s) == s # Empty

----------------------------------------------------------------------------
(* Validation helpers (helper/authHelpers.js, middlewares/validate.js) *)

minLength == 8

\* isValidPassword: the list of the classes the password misses, in the
\* order the code pushes them
IsValidPassword(password) ==
  (IF Len(password) < minLength THEN <<"minLength">> ELSE <<>>)
  \o (IF Range(password) \cap Upper = {} THEN <<"upper">> ELSE <<>>)
  \o (IF Range(password) \cap Lower = {} THEN <<"lower">> ELSE <<>>)
  \o (IF Range(password) \cap Digits = {} THEN <<"digit">> ELSE <<>>)
  \o (IF Range(password) \cap Special = {} THEN <<"special">> ELSE <<>>)

\* !array in JavaScript: an array, empty or not, is truthy
NotArray(a) == FALSE

\* validator.isMobilePhone(phone, "vi-VN"):
\* /^((\+?84)|0)(3[2-9]|5[25689]|7[06-9]|8[0-689]|9[0-4|6-9])([0-9]{7})$/
OperatorCode(a, b) ==
  \/ a = "3" /\ b \in {"2", "3", "4", "5", "6", "7", "8", "9"}
  \/ a = "5" /\ b \in {"2", "5", "6", "8", "9"}
  \/ a = "7" /\ b \in {"0", "6", "7", "8", "9"}
  \/ a = "8" /\ b \in {"0", "1", "2", "3", "4", "5", "6", "8", "9"}
  \/ a = "9" /\ b \in {"0", "1", "2", "3", "4", "|", "6", "7", "8", "9"}

IsValidPhone(phone) ==
  \E k \in 1..3 :
    /\ Len(phone) = k + 9
    /\ SubSeq(phone, 1, k) \in {<<"0">>, <<"8", "4">>, <<"+", "8", "4">>}
    /\ OperatorCode(phone[k + 1], phone[k + 2])
    /\ AllIn(SubSeq(phone, k + 3, k + 9), Digits)

\* validator.isEmail, as far as the addresses of the model go: one "@", a
\* non-empty local part, a domain with an inner dot
IsValidEmail(email) ==
  \E a \in 2..Len(email) :
    /\ email[a] = "@"
    /\ \A i \in 1..Len(email) : email[i] = "@" => i = a
    /\ \E d \in (a + 2)..(Len(email) - 1) : email[d] = "."

\* bcrypt reads the first 72 bytes of the password it is given and no more
BcryptBytes == 72
Truncated(password) ==
  IF Len(password) > BcryptBytes THEN SubSeq(password, 1, BcryptBytes)
  ELSE password

\* bcrypt.hash(password, 10): the digest, of which the model keeps the
\* part of the plaintext it was derived from (the salt, which makes two
\* digests of one plaintext differ, is left out); "clear" marks a value
\* stored unhashed
HashPassword(password) == [kind |-> "bcrypt", text |-> Truncated(password)]

\* bcrypt.compare(password, hashedPassword): false for a value that is no
\* bcrypt digest
CheckPassword(password, hashedPassword) ==
  hashedPassword.kind = "bcrypt" /\ hashedPassword.text = Truncated(password)

\* Joi string().trim(): leading and trailing blanks are dropped before the
\* rules are applied
RECURSIVE TrimLeft(_)
TrimLeft(s) == IF s # <<>> /\ Head(s) = " " THEN TrimLeft(Tail(s)) ELSE s
RECURSIVE TrimRight(_)
TrimRight(s) ==
  IF s # <<>> /\ s[Len(s)] = " " THEN TrimRight(SubSeq(s, 1, Len(s) - 1)) ELSE s
Trim(s) == TrimRight(TrimLeft(s))

\* Joi string().trim().alphanum().min(3).max(30)
JoiUsername(s) ==
  /\ Len(Trim(s)) \in 3..30
  /\ AllIn(Trim(s), Digits \cup Lower \cup Upper)

\* Joi string().pattern(/^(0|\+?\d{1,3})[0-9]{9,14}$/)
JoiPhone(s) ==
  \E k \in 1..4 :
    /\ k <= Len(s)
    /\ \/ SubSeq(s, 1, k) = <<"0">>
       \/ k <= 3 /\ AllIn(SubSeq(s, 1, k), Digits)
       \/ k >= 2 /\ s[1] = "+" /\ AllIn(SubSeq(s, 2, k), Digits)
    /\ (Len(s) - k) \in 9..14
    /\ AllIn(SubSeq(s, k + 1, Len(s)), Digits)

\* validateSignin: usernameOrPhone and password are required and well formed
ValidateSignin(body) ==
  /\ body.usernameOrPhone # Empty
  /\ JoiUsername(body.usernameOrPhone) \/ JoiPhone(body.usernameOrPhone)
  /\ Len(body.password) \in 6..64

\* validateSignup: the details of the Joi error, one entry per rule that
\* fails (abortEarly: false), in the order of the schema; a field that is
\* missing yields its "required" entry alone
ValidateSignup(body) ==
  LET username == Trim(body.username)
      fullName == Trim(body.fullName)
      password == body.password
      If(failed, entry) == IF failed THEN <<entry>> ELSE <<>>
  IN  (IF body.username = Empty THEN <<"username.required">>
       ELSE If(~AllIn(username, Digits \cup Lower \cup Upper), "username.alphanum")
            \o If(Len(username) < 3, "username.min")
            \o If(Len(username) > 30, "username.max"))
      \o (IF body.phone = Empty THEN <<"phone.required">>
          ELSE If(~JoiPhone(body.phone), "phone.pattern"))
      \o (IF body.fullName = Empty THEN <<"fullName.required">>
          ELSE If(Len(fullName) < 3, "fullName.min")
               \o If(Len(fullName) > 100, "fullName.max"))
      \o (IF password = Empty THEN <<"password.required">>
          ELSE If(Len(password) < 8, "password.min")
               \o If(Len(password) > 64, "password.max")
               \o If(\/ Range(password) \cap Upper = {}
                     \/ Range(password) \cap Lower = {}
                     \/ Range(password) \cap Digits = {}, "password.pattern"))
      \o (IF body.confirmPassword = Empty THEN <<"confirmPassword.required">>
          ELSE If(body.confirmPassword # password, "confirmPassword.only"))

\* /^[0-9]{10,15}$/.test(usernameOrPhone)
IsPhone(usernameOrPhone) ==
  Len(usernameOrPhone) \in 10..15 /\ AllIn(usernameOrPhone, Digits)

----------------------------------------------------------------------------
(* Session tokens (jsonwebtoken) *)

\* A token as a client presents it. form "jwt": a well-formed token, signed
\* with the key named by sig; "garbage": a string that is no JWT;
\* "empty": the empty string; "undefined": no value at all.
Tok(form, id, username, role, iat, exp, sig) ==
  [form |-> form, id |-> id, username |-> username, role |-> role,
   iat |-> iat, exp |-> exp, sig |-> sig]
Undefined == Tok("undefined", "", Empty, "", 0, 0, "")
EmptyString == Tok("empty", "", Empty, "", 0, 0, "")
Garbage == Tok("garbage", "", Empty, "", 0, 0, "")

\* only undefined taken for falsy
Falsy_UndefinedOnly(t) == t.form = "undefined"

\* the value is falsy in JavaScript (undefined or "")
Falsy(t) == t.form \in {"undefined", "empty"}

\* the operands the other way round: b || a
OrElse_Swapped(a, b) == IF Falsy(b) THEN a ELSE b

\* a || b
OrElse(a, b) == IF Falsy(a) THEN b ELSE a

\* generateToken(user) at time now
GenerateToken(user, now) ==
  LET expirationTime == IF user.rememberMe THEN SevenDays ELSE TokenExpiration
  IN  Tok("jwt", user.id, user.username, user.role, now, now + expirationTime,
          "JWT_SECRET")

\* a token a client made from one it holds: the payload claims role admin,
\* the signature is not the server's
Tamper(t) == [t EXCEPT !.role = "admin", !.sig = "other"]

\* the role looked up in the store instead of taken from the token
Claims_StoredRole(t) ==
  [set |-> TRUE, id |-> t.id, username |-> t.username,
   role |-> IF t.id \in DOMAIN users THEN users[t.id].role ELSE t.role,
   iat |-> t.iat, exp |-> t.exp]

\* the decoded payload, and the value of req.user before verifyToken sets it
Claims(t) ==
  [set |-> TRUE, id |-> t.id, username |-> t.username, role |-> t.role,
   iat |-> t.iat, exp |-> t.exp]
NoClaims ==
  [set |-> FALSE, id |-> "", username |-> Empty, role |-> "", iat |-> 0, exp |-> 0]

\* a token still taken at the very second it expires (> for >=)
JwtVerifyError_Late(token, now) ==
  IF token.form # "jwt" THEN "Malformed"
  ELSE IF token.sig # "JWT_SECRET" THEN "SignatureInvalid"
  ELSE IF now > token.exp THEN "Expired"
  ELSE "none"

\* the payload decoded without checking the signature (jwt.decode)
JwtVerifyError_Unsigned(token, now) ==
  IF token.form # "jwt" THEN "Malformed"
  ELSE IF now >= token.exp THEN "Expired"
  ELSE "none"

\* jwt.verify(token, process.env.JWT_SECRET) at time now: the error it
\* throws, or "none"
JwtVerifyError(token, now) ==
  IF token.form # "jwt" THEN "Malformed"
  ELSE IF token.sig # "JWT_SECRET" THEN "SignatureInvalid"
  ELSE IF now >= token.exp THEN "Expired"
  ELSE "none"

----------------------------------------------------------------------------
(* Identities (UserModel documents) *)

Ids == {"u1", "u2"}
\* strings that ObjectId.isValid accepts (24 hex digits); "zz", "users" and
\* "me" are not among them
ObjectIds == {"u1", "u2", "u3", "u4"}
TargetIds == Ids \cup {"zz"}
\* the ids that requests with a body aim at
BodyTargets == {"u2", "zz"}

Alice == <<"a", "l", "i", "c", "e">>
Bob == <<"b", "o", "b">>
Robert == <<"r", "o", "b", "e", "r", "t">>
PhoneAlice == <<"0", "9", "1", "2", "3", "4", "5", "6", "7", "8">>
PhoneBob == <<"0", "3", "5", "2", "3", "4", "5", "6", "7", "8">>
PhoneNew == <<"0", "7", "7", "2", "3", "4", "5", "6", "7", "8">>
PhoneBad == <<"1", "2", "3">>
MailAlice == <<"a", "@", "x", ".", "v", "n">>
MailBob == <<"b", "@", "x", ".", "v", "n">>
MailBad == <<"b", "x", ".", "v", "n">>
PwAlice == <<"A", "l", "i", "c", "e", "#", "0", "1">>
PwBob == <<"B", "o", "b", "b", "y", "!", "2", "3">>
PwWeak == <<"a", "b", "c", "1", "2", "3", "4", "5">>
PwNoSpecial == <<"A", "b", "c", "d", "e", "1", "2", "3">>
PwShort == <<"A", "b", "1", "!">>
Carol == <<"c", "a", "r", "o", "l">>
AlBo == <<"A", "l", " ", "B", "o">>
TempAlbo == <<"t", "e", "m", "p", "_", "a", "l", "b", "o">>
Phone034 == <<"0", "3", "4", "1", "2", "3", "4", "5", "6", "7">>
Phone034b == <<"0", "3", "4", "7", "6", "5", "4", "3", "2", "1">>
\* a number the Joi pattern takes and isMobilePhone does not
PhoneAbroad == <<"0", "1", "1", "2", "3", "4", "5", "6", "7", "8">>
MailNew == <<"n", "@", "x", ".", "v", "n">>
MailOther == <<"o", "@", "x", ".", "v", "n">>

User(id, username, phone, email, password, role, isActive, rememberMe, avatar) ==
  [id |-> id, username |-> username, phone |-> phone, email |-> email,
   password |-> password, role |-> role, isActive |-> isActive,
   rememberMe |-> rememberMe, avatar |-> avatar]

\* a unique index on phone alone
DuplicateKey_PhoneOnly(id, doc) ==
  \E j \in DOMAIN users \ {id} : users[j].phone = doc.phone

\* a unique index on username alone
DuplicateKey_UsernameOnly(id, doc) ==
  \E j \in DOMAIN users \ {id} : users[j].username = doc.username

\* The unique indexes of the identity store on username and on phone: the
\* write of the document doc under id is refused with a duplicate key error
\* when another identity holds its username or its phone.
DuplicateKey(id, doc) ==
  \E j \in DOMAIN users \ {id} :
    users[j].username = doc.username \/ users[j].phone = doc.phone

\* UserModel.findById(id) for a well-formed id: the document, if any
Exists(id) == id \in DOMAIN users
\* The defaults of the UserModel schema for the fields a new identity is
\* not given: an active identity of role user without remember-me
SchemaDefaults ==
  [role |-> "user", isActive |-> TRUE, rememberMe |-> FALSE, avatar |-> FALSE]

\* the ids of the identities created while the model runs
NewIds == {"u3", "u4"}
\* the _id of a new document
FreshId == CHOOSE i \in NewIds : i \notin DOMAIN users

\* newUser.save() / existingUser.save() of a new document
Inserted(doc) ==
  [i \in DOMAIN users \cup {doc.id} |-> IF i = doc.id THEN doc ELSE users[i]]

\* UserModel.findOne({ email })
ByEmail(email) == {i \in DOMAIN users : users[i].email = email}
\* UserModel.findOne({ username }) / ({ phone }): the ids of the matches
ByUsername(username) == {i \in DOMAIN users : users[i].username = username}
ByPhone(phone) == {i \in DOMAIN users : users[i].phone = phone}

----------------------------------------------------------------------------
(* Requests and responses *)

Header(present, scheme, token) ==
  [present |-> present, scheme |-> scheme, token |-> token]
NoHeader == Header(FALSE, "", Undefined)

\* the header fallback left out
SecondWord_None(authorization) == Undefined

\* req.headers.authorization?.split(" ")[1]: the second word of the header.
\* A header of one word (scheme "") has none.
SecondWord(authorization) ==
  IF authorization.present /\ authorization.scheme # ""
  THEN authorization.token ELSE Undefined

\* the fields of req.body (and req.query.page) the routes read; an absent
\* string is Empty, an absent role "", an absent isActive "undefined", an
\* absent page 0, an absent rememberMe FALSE (the code tests its truthiness)
NoBody ==
  [username |-> Empty, email |-> Empty, phone |-> Empty, role |-> "",
   isActive |-> "undefined", password |-> Empty, currentPassword |-> Empty,
   newPassword |-> Empty, usernameOrPhone |-> Empty, rememberMe |-> FALSE,
   page |-> 0, fullName |-> Empty, confirmPassword |-> Empty, images |-> FALSE]

Request(method, path, cookie, authorization, body, file) ==
  [method |-> method, path |-> path, route |-> "", id |-> "undefined",
   cookie |-> cookie, authorization |-> authorization, body |-> body,
   file |-> file, user |-> NoClaims]
NoRequest == Request("", <<>>, Undefined, NoHeader, NoBody, FALSE)

\* a document without its password field
NoPassword == [kind |-> "", text |-> Empty]
\* the user of a JSON answer: the identity it is about and the password
\* field it carries; id "" when the answer has no user
NoUser == [id |-> "", password |-> NoPassword]
\* user.toObject() followed by `delete sanitizedUser.password`, and a
\* document read with .select("-password")
SanitizedUser(user) == [id |-> user.id, password |-> NoPassword]
\* res.json({ user }) of a document as it is: every field it holds
Json(user) == [id |-> user.id, password |-> user.password]

\* the options of a cookie operation; maxAge in milliseconds, 0 when the
\* options carry none
NoOptions == [httpOnly |-> FALSE, secure |-> FALSE, sameSite |-> "", maxAge |-> 0]

\* status 0: no response sent yet; cookie: what the response does to the
\* cookie of the given name, with the given options and token
Response(status, message, cookie, token) ==
  [status |-> status, message |-> message, cookie |-> cookie, token |-> token,
   errors |-> <<>>, user |-> NoUser, name |-> "", options |-> NoOptions]
NoResponse == Response(0, "", "untouched", Undefined)

\* { httpOnly: true, secure: process.env.NODE_ENV === "production",
\*   sameSite: process.env.NODE_ENV === "production" ? "None" : "Lax" }
CookieOptions ==
  [httpOnly |-> TRUE, secure |-> NODE_ENV = "production",
   sameSite |-> IF NODE_ENV = "production" THEN "None" ELSE "Lax",
   maxAge |-> 0]

\* the cookie made to last as long as the token it carries
Cookie_TokenLifetime(response, token) ==
  [response EXCEPT !.cookie = "set", !.name = "token", !.token = token,
                   !.options = [CookieOptions EXCEPT
                                  !.maxAge = (token.exp - token.iat) * 1000]]

\* res.cookie("token", token, { ..., maxAge: 7 * 24 * 60 * 60 * 1000 })
Cookie(response, token) ==
  [response EXCEPT !.cookie = "set", !.name = "token", !.token = token,
                   !.options = [CookieOptions EXCEPT
                                  !.maxAge = SevenDays * 1000]]

\* the cookie left as it is
ClearCookie_Not(response) == response

\* res.clearCookie("token", { httpOnly, secure, sameSite })
ClearCookie(response) ==
  [response EXCEPT !.cookie = "cleared", !.name = "token",
                   !.options = CookieOptions]

\* updatedData: the fields findByIdAndUpdate is to set; none before the
\* handler of PUT /:id has built it
NoUpdate ==
  [id |-> "", username |-> Empty, phone |-> Empty, email |-> Empty,
   password |-> [kind |-> "", text |-> Empty], role |-> "", isActive |-> FALSE,
   rememberMe |-> FALSE, avatar |-> FALSE]

NoHistory ==
  [ran |-> <<>>, nexts |-> <<>>, sent |-> <<>>, err |-> "none",
   tmpFile |-> FALSE, updatedData |-> NoUpdate]

\* The browser's cookie jar: the cookie named token, whether the browser
\* has signed out since that cookie was last set, and the second at which
\* the maxAge of the cookie has passed.
NoCookie == [cookie |-> Undefined, signedOut |-> FALSE, expires |-> 0]

\* what the browser does with the Set-Cookie header of the response of a
\* route: res.cookie stores the token, res.clearCookie drops it
SetCookie(route, response) ==
  IF response.cookie = "set"
  THEN [cookie |-> response.token, signedOut |-> FALSE,
        expires |-> clock + response.options.maxAge \div 1000]
  ELSE [cookie |-> IF response.cookie = "cleared" THEN Undefined
                   ELSE client.cookie,
        signedOut |-> client.signedOut \/ route = "POST /signout",
        expires |-> IF response.cookie = "cleared" THEN 0
                    ELSE client.expires]

\* the cookie the browser sends: the one it holds, until its maxAge has
\* passed
CookieSent == IF clock < client.expires THEN client.cookie ELSE Undefined

\* The requests for POST /signup and POST /authWithGoogle are served side by
\* side, each in a slot of its own: its route, the await it stands at, its
\* body, its response, the stages that ran, what made it fail and the
\* phone number drawn for it.
Slots == {1, 2}
NoPost ==
  [route |-> "", pc |-> "idle", body |-> NoBody, res |-> NoResponse,
   ran |-> <<>>, err |-> "none", phone |-> Empty]

\* The routes of routes/userRoutes.js that the model serves through the
\* middleware chain, in the order they are registered; ":id" binds params.id.
Routes ==
  << [name |-> "GET /users", method |-> "GET", pattern |-> <<"users">>],
     [name |-> "GET /:id", method |-> "GET", pattern |-> <<":id">>],
     [name |-> "DELETE /:id", method |-> "DELETE", pattern |-> <<":id">>],
     [name |-> "PUT /:id", method |-> "PUT", pattern |-> <<":id">>],
     [name |-> "PUT /change-password/:id", method |-> "PUT",
      pattern |-> <<"change-password", ":id">>],
     [name |-> "DELETE /delete-user/:id", method |-> "DELETE",
      pattern |-> <<"delete-user", ":id">>],
     [name |-> "GET /me", method |-> "GET", pattern |-> <<"me">>] >>

Matches(r, method, path) ==
  /\ r.method = method
  /\ Len(r.pattern) = Len(path)
  /\ \A i \in 1..Len(path) : r.pattern[i] = ":id" \/ r.pattern[i] = path[i]

\* Express dispatch: the first registered route that matches; 0 if none
Dispatch(method, path) ==
  IF \E k \in 1..Len(Routes) : Matches(Routes[k], method, path)
  THEN CHOOSE k \in 1..Len(Routes) :
         /\ Matches(Routes[k], method, path)
         /\ \A j \in 1..(k - 1) : ~Matches(Routes[j], method, path)
  ELSE 0

\* req.params.id of the matched route
ParamId(r, path) ==
  IF \E i \in 1..Len(path) : r.pattern[i] = ":id"
  THEN path[CHOOSE i \in 1..Len(path) : r.pattern[i] = ":id"]
  ELSE "undefined"

\* checkAdminOrOwner registered in front of verifyToken
Chain_GuardFirst(route) ==
  CASE route = "GET /:id" -> <<"handler">>
    [] route = "PUT /:id" ->
         <<"upload", "checkAdminOrOwner", "verifyToken", "handler">>
    [] route = "GET /me" -> <<"verifyToken", "handler">>
    [] OTHER -> <<"checkAdminOrOwner", "verifyToken", "handler">>

\* the middleware chain of each route
Chain(route) ==
  CASE route = "GET /users" -> <<"verifyToken", "checkAdminOrOwner", "handler">>
    [] route = "GET /:id" -> <<"handler">>
    [] route = "DELETE /:id" -> <<"verifyToken", "checkAdminOrOwner", "handler">>
    [] route = "PUT /:id" ->
         <<"upload", "verifyToken", "checkAdminOrOwner", "handler">>
    [] route = "PUT /change-password/:id" ->
         <<"verifyToken", "checkAdminOrOwner", "handler">>
    [] route = "DELETE /delete-user/:id" ->
         <<"verifyToken", "checkAdminOrOwner", "handler">>
    [] route = "GET /me" -> <<"verifyToken", "handler">>

\* next(): the stage after the given one in the chain of the route
After(route, stage) ==
  LET c == Chain(route)
      k == CHOOSE i \in 1..Len(c) : c[i] = stage
  IN  c[k + 1]

----------------------------------------------------------------------------
(* Initial state: an admin and a user are registered, no request in flight *)

\* the server process starts under the given NODE_ENV
Start(env) ==
  /\ users = [i \in Ids |->
       IF i = "u1"
       THEN User("u1", Alice, PhoneAlice, MailAlice, HashPassword(PwAlice),
                 "admin", TRUE, FALSE, FALSE)
       ELSE User("u2", Bob, PhoneBob, MailBob, HashPassword(PwBob),
                 "user", TRUE, FALSE, TRUE)]
  /\ orders = {"u2"}
  /\ NODE_ENV = env
  /\ clock = 0
  /\ ticks = 0
  /\ issued = {}
  /\ client = NoCookie
  /\ posts = [s \in Slots |-> NoPost]
  /\ pc = "idle"
  /\ req = NoRequest
  /\ res = NoResponse
  /\ mw = NoHistory

\* no call of the password helpers outside a request
NoCall ==
  [pc |-> "idle", plain |-> Empty, password |-> Empty,
   hashedPassword |-> [kind |-> "", text |-> Empty], isMatch |-> "none"]

\* a server run in development
Init == Start("development") /\ unit = NoCall

\* the values of NODE_ENV the code tells apart
NodeEnvs == {"production", "development"}
\* a server run in production or in development
InitEnv == \E env \in NodeEnvs : Start(env) /\ unit = NoCall

----------------------------------------------------------------------------
(* What clients send *)

\* the values a client can put in the cookie or after the scheme of the
\* Authorization header: nothing usable, a token it was issued, or one it
\* altered
Presented ==
  {Undefined, EmptyString, Garbage} \cup issued \cup {Tamper(t) : t \in issued}

\* cookie and Authorization header of a request
Credentials ==
  {<<c, NoHeader>> : c \in Presented}
  \cup {<<c, Header(TRUE, "Bearer", t)>> :
          c \in {Undefined, EmptyString}, t \in issued \cup {Garbage}}
  \cup {<<Undefined, Header(TRUE, s, t)>> : s \in {"Basic", ""}, t \in issued}
  \cup {<<c, Header(TRUE, "Bearer", t)>> :
          c \in {Garbage} \cup {Tamper(u) : u \in issued}, t \in issued}
\* the session cookie alone, as a browser sends it
CookieOnly == {<<c, NoHeader>> : c \in {Undefined} \cup issued}

Paths ==
  {<<"users">>, <<"me">>} \cup {<<i>> : i \in TargetIds}
  \cup {<<"change-password", i>> : i \in TargetIds}
  \cup {<<"delete-user", i>> : i \in TargetIds}

PutBodies ==
  {[NoBody EXCEPT !.role = r] : r \in {"admin", "user"}}
  \cup {[NoBody EXCEPT !.isActive = a] : a \in {"true", "false"}}
  \cup {[NoBody EXCEPT !.username = u] : u \in {Robert, Alice}}
  \cup {[NoBody EXCEPT !.phone = ph] : ph \in {PhoneNew, PhoneAlice, PhoneBad}}
  \cup {[NoBody EXCEPT !.email = MailBad], [NoBody EXCEPT !.password = PwWeak]}
RoleBodies ==
  {[NoBody EXCEPT !.role = "admin"], [NoBody EXCEPT !.role = "user"],
   [NoBody EXCEPT !.isActive = "false"]}
ChangePasswordBodies ==
  {[NoBody EXCEPT !.currentPassword = c, !.newPassword = n] :
     c \in {Empty, PwAlice, PwBob}, n \in {Empty, PwWeak}}
PageBodies == {[NoBody EXCEPT !.page = n] : n \in {-1, 2}}
SigninBodies ==
  {[NoBody EXCEPT !.usernameOrPhone = u, !.password = pw, !.rememberMe = r] :
     u \in {Empty, Alice, Bob, PhoneBob, Robert}, pw \in {PwAlice, PwBob},
     r \in BOOLEAN}

\* a change of password by who knows the current one
SessionPasswordBodies ==
  {[NoBody EXCEPT !.currentPassword = PwBob, !.newPassword = PwAlice]}

\* changes of the own username or phone
ProfileBodies ==
  {[NoBody EXCEPT !.username = TempAlbo], [NoBody EXCEPT !.phone = Phone034]}
OwnerBodies ==
  {[NoBody EXCEPT !.usernameOrPhone = Bob, !.password = PwBob]}

\* the right credentials of the two identities, remember-me asked or not
SessionBodies ==
  {[NoBody EXCEPT !.usernameOrPhone = c[1], !.password = c[2], !.rememberMe = r] :
     c \in {<<Alice, PwAlice>>, <<Bob, PwBob>>}, r \in BOOLEAN}

----------------------------------------------------------------------------
(* The clock *)

\* the clock advances by one of the given steps
Advance(steps) ==
  /\ pc = "idle"
  /\ ticks < MaxTicks
  /\ \E d \in steps : clock' = clock + d
  /\ ticks' = ticks + 1
  /\ UNCHANGED <<users, orders, NODE_ENV, unit, issued, client, posts, pc, req, res, mw>>

\* fine steps, which stop at both sides of each expiry
Tick == Advance(TickSteps)
\* one coarse step, which outlasts the default window
TickHour == Advance({Hour})

----------------------------------------------------------------------------
(* A request enters the router *)

\* the request is dispatched to the first matching route and handed to the
\* first stage of its chain
Receive(method, path, cookie, authorization, body, file) ==
  LET k == Dispatch(method, path)
  IN  /\ pc = "idle"
      /\ k # 0
      /\ req' = [Request(method, path, cookie, authorization, body, file)
                   EXCEPT !.route = Routes[k].name,
                          !.id = ParamId(Routes[k], path)]
      /\ pc' = Chain(Routes[k].name)[1]
      /\ res' = NoResponse
      /\ mw' = NoHistory
      /\ UNCHANGED <<users, orders, NODE_ENV, unit, clock, ticks, issued, client, posts>>

\* the routes behind verifyToken, and the public GET /:id, with every kind
\* of credential and no body
StartRequest ==
  \E method \in {"GET", "PUT", "DELETE"}, path \in Paths, cr \in Credentials :
    Receive(method, path, cr[1], cr[2], NoBody, FALSE)

\* requests that carry a body or a file, with the session cookie alone
StartRequestWithBody ==
  \E cr \in CookieOnly :
    \/ \E i \in BodyTargets, b \in PutBodies :
         Receive("PUT", <<i>>, cr[1], cr[2], b, FALSE)
    \/ \E i \in BodyTargets :
         Receive("PUT", <<i>>, cr[1], cr[2], NoBody, TRUE)
    \/ \E i \in BodyTargets, b \in ChangePasswordBodies :
         Receive("PUT", <<"change-password", i>>, cr[1], cr[2], b, FALSE)
    \/ \E b \in PageBodies :
         Receive("GET", <<"users">>, cr[1], cr[2], b, FALSE)
    \/ \E i \in BodyTargets :
         \E path \in {<<i>>, <<"delete-user", i>>} :
           Receive("DELETE", path, cr[1], cr[2], NoBody, FALSE)
    \/ \E path \in {<<"users">>, <<"u2">>} :
         Receive("GET", path, cr[1], cr[2], NoBody, FALSE)

\* the requests of a session: the list of users, and a change of a role or
\* of an active flag
StartSessionRequest ==
  \E t \in issued :
    \/ Receive("GET", <<"users">>, t, NoHeader, NoBody, FALSE)
    \/ \E i \in Ids, b \in RoleBodies :
         Receive("PUT", <<i>>, t, NoHeader, b, FALSE)

\* the requests of the browser, which sends the cookie it holds, with or
\* without a token it was issued in the Authorization header
StartClientRequest ==
  \E h \in {NoHeader} \cup {Header(TRUE, "Bearer", t) : t \in issued} :
    \/ Receive("GET", <<"users">>, CookieSent, h, NoBody, FALSE)
    \/ \E i \in Ids :
         Receive("DELETE", <<"delete-user", i>>, CookieSent, h, NoBody, FALSE)
    \/ \E b \in SessionPasswordBodies :
         Receive("PUT", <<"change-password", "u2">>, CookieSent, h, b, FALSE)

\* an identity changes its own profile
StartProfileRequest ==
  \E t \in issued, b \in ProfileBodies :
    Receive("PUT", <<t.id>>, t, NoHeader, b, FALSE)

----------------------------------------------------------------------------
(* Middleware *)

\* next()
CallNext(stage) ==
  /\ pc' = After(req.route, stage)
  /\ mw' = [mw EXCEPT !.ran = Append(@, stage), !.nexts = Append(@, stage)]

\* upload.single("avatar") (multer): stores the uploaded file, if any, in a
\* temporary file and continues
Upload ==
  /\ pc = "upload"
  /\ pc' = After(req.route, "upload")
  /\ mw' = [mw EXCEPT !.ran = Append(@, "upload"),
                      !.nexts = Append(@, "upload"), !.tmpFile = req.file]
  /\ UNCHANGED <<users, orders, NODE_ENV, unit, clock, ticks, issued, client, posts, req, res>>

\* an expired token answered with another status than a forged one
VerifyFailure_Telling(error) ==
  [status |-> IF error = "Expired" THEN 403 ELSE 401,
   message |-> "SessionInvalid"]

\* the answer of verifyToken when jwt.verify throws
VerifyFailure(error) == [status |-> 401, message |-> "SessionInvalid"]

VerifyToken ==
  /\ pc = "verifyToken"
  /\ LET tokenFromCookie == req.cookie
         tokenFromHeader == SecondWord(req.authorization)
         token == OrElse(tokenFromCookie, tokenFromHeader)
         error == JwtVerifyError(token, clock)
     IN  IF Falsy(token)
         THEN /\ res' = [res EXCEPT !.status = 401, !.message = "PleaseSignIn"]
              /\ pc' = "done"
              /\ mw' = [mw EXCEPT !.ran = Append(@, "verifyToken"),
                                  !.sent = Append(@, "verifyToken")]
              /\ req' = req
         ELSE IF error = "none"
         THEN /\ req' = [req EXCEPT !.user = Claims(token)]
              /\ CallNext("verifyToken")
              /\ res' = res
         ELSE /\ res' = ClearCookie(
                          [res EXCEPT !.status = VerifyFailure(error).status,
                                      !.message = VerifyFailure(error).message])
              /\ pc' = "done"
              /\ mw' = [mw EXCEPT !.ran = Append(@, "verifyToken"),
                                  !.sent = Append(@, "verifyToken"),
                                  !.err = error]
              /\ req' = req
  /\ UNCHANGED <<users, orders, NODE_ENV, unit, clock, ticks, issued, client, posts>>

\* A request reaches authJwt() or isAdmin where another router mounts it:
\* the middleware it is handed to, with every kind of credential
StartCoreRequest ==
  \E cr \in Credentials, stage \in {"authJwt", "isAdmin"} :
    /\ pc = "idle"
    /\ req' = [Request("GET", <<stage>>, cr[1], cr[2], NoBody, FALSE)
                 EXCEPT !.route = stage]
    /\ pc' = stage
    /\ res' = NoResponse
    /\ mw' = NoHistory
    /\ UNCHANGED <<users, orders, NODE_ENV, unit, clock, ticks, issued, client, posts>>

\* the middleware answers by itself
Rejects(stage, status, message, error) ==
  /\ res' = [res EXCEPT !.status = status, !.message = message]
  /\ pc' = "done"
  /\ mw' = [mw EXCEPT !.ran = Append(@, stage), !.sent = Append(@, stage),
                      !.err = error]
  /\ req' = req

\* req.user = decoded; next()
Passes(stage, decoded) ==
  /\ req' = [req EXCEPT !.user = decoded]
  /\ pc' = "handler"
  /\ mw' = [mw EXCEPT !.ran = Append(@, stage), !.nexts = Append(@, stage)]
  /\ res' = res

\* authJwt(): jwt.verify with a callback; no cookie is cleared
AuthJwt ==
  /\ pc = "authJwt"
  /\ LET token == OrElse(req.cookie, SecondWord(req.authorization))
         err == JwtVerifyError(token, clock)
     IN  IF Falsy(token) THEN Rejects("authJwt", 401, "TokenMissing", "none")
         ELSE IF err # "none" THEN Rejects("authJwt", 401, "TokenInvalid", err)
         ELSE Passes("authJwt", Claims(token))
  /\ UNCHANGED <<users, orders, NODE_ENV, unit, clock, ticks, issued, client, posts>>

\* every role let through
RoleDenied_Never(decoded) == FALSE

\* decoded.role !== "admin"
RoleDenied(decoded) == decoded.role # "admin"

\* isAdmin: no cookie is cleared
IsAdmin ==
  /\ pc = "isAdmin"
  /\ LET token == OrElse(req.cookie, SecondWord(req.authorization))
         error == JwtVerifyError(token, clock)
         decoded == Claims(token)
     IN  IF Falsy(token) THEN Rejects("isAdmin", 401, "TokenMissing", "none")
         ELSE IF error # "none"
         THEN Rejects("isAdmin", 401, "TokenInvalid", error)
         ELSE IF RoleDenied(decoded)
         THEN Rejects("isAdmin", 403, "Forbidden", "none")
         ELSE Passes("isAdmin", decoded)
  /\ UNCHANGED <<users, orders, NODE_ENV, unit, clock, ticks, issued, client, posts>>

\* the owner comparison left out
MayAct_AdminOnly(userRoleFromToken, userIdFromToken, id) ==
  userRoleFromToken = "admin"

\* userRoleFromToken === "admin" || userIdFromToken === id
MayAct(userRoleFromToken, userIdFromToken, id) ==
  userRoleFromToken = "admin" \/ userIdFromToken = id

CheckAdminOrOwner ==
  /\ pc = "checkAdminOrOwner"
  /\ LET id == req.id
         userIdFromToken == req.user.id
         userRoleFromToken == req.user.role
     IN  IF ~req.user.set
         THEN \* req.user is undefined: reading req.user.id throws
              /\ pc' = "crashed"
              /\ mw' = [mw EXCEPT !.ran = Append(@, "checkAdminOrOwner")]
              /\ res' = res
         ELSE IF MayAct(userRoleFromToken, userIdFromToken, id)
         THEN /\ CallNext("checkAdminOrOwner")
              /\ res' = res
         ELSE /\ res' = [res EXCEPT !.status = 403, !.message = "Forbidden"]
              /\ pc' = "done"
              /\ mw' = [mw EXCEPT !.ran = Append(@, "checkAdminOrOwner"),
                                  !.sent = Append(@, "checkAdminOrOwner")]
  /\ UNCHANGED <<users, orders, NODE_ENV, unit, clock, ticks, issued, client, posts, req>>

----------------------------------------------------------------------------
(* Route handlers (routes/userRoutes.js) *)

\* res.status(status).json({ message }) by the handler
Reply(status, message) ==
  /\ res' = [res EXCEPT !.status = status, !.message = message]
  /\ pc' = "done"
  /\ mw' = [mw EXCEPT !.ran = Append(@, "handler"), !.sent = Append(@, "handler")]

\* res.status(status).json({ message, user }) by the handler
ReplyUser(status, message, user) ==
  /\ res' = [res EXCEPT !.status = status, !.message = message, !.user = user]
  /\ pc' = "done"
  /\ mw' = [mw EXCEPT !.ran = Append(@, "handler"), !.sent = Append(@, "handler")]

AtHandler(route) == pc = "handler" /\ req.route = route

\* the handler another router puts behind authJwt() or isAdmin
Protected ==
  /\ pc = "handler"
  /\ req.route \in {"authJwt", "isAdmin"}
  /\ Reply(200, "Protected")
  /\ UNCHANGED <<users, orders, NODE_ENV, unit, clock, ticks, issued, client, posts, req>>

\* GET /users
GetUsers ==
  /\ AtHandler("GET /users")
  /\ LET page == IF req.body.page = 0 THEN 1 ELSE req.body.page
         perPage == 12
         totalUsers == Cardinality(DOMAIN users)
         totalPages == (totalUsers + perPage - 1) \div perPage
     IN  IF page < 1 THEN Reply(400, "InvalidPage")
         ELSE IF page > totalPages THEN Reply(404, "PageNotFound")
         ELSE Reply(200, "Users")
  /\ UNCHANGED <<users, orders, NODE_ENV, unit, clock, ticks, issued, client, posts, req>>

\* GET /:id
GetById ==
  /\ AtHandler("GET /:id")
  /\ IF req.id \notin ObjectIds THEN Reply(400, "InvalidId")
     ELSE IF ~Exists(req.id) THEN Reply(404, "UserNotFound")
     ELSE ReplyUser(200, "User", SanitizedUser(users[req.id]))
  /\ UNCHANGED <<users, orders, NODE_ENV, unit, clock, ticks, issued, client, posts, req>>

\* GET /me, behind verifyToken. The route is registered after GET /:id,
\* whose pattern matches the path /me as well, so Dispatch never hands a
\* request to it and no specification below takes this step.
GetMe ==
  /\ AtHandler("GET /me")
  /\ IF ~Exists(req.user.id) THEN Reply(404, "UserNotFound")
     ELSE ReplyUser(200, "Me", SanitizedUser(users[req.user.id]))
  /\ UNCHANGED <<users, orders, NODE_ENV, unit, clock, ticks, issued, client,
                 posts, req>>

\* DELETE /:id
DeleteUser ==
  /\ AtHandler("DELETE /:id")
  /\ \E destroyed \in BOOLEAN :
       LET id == req.id
       IN  IF id \notin ObjectIds
           THEN \* findById rejects with a CastError
                Reply(500, "InternalServerError") /\ UNCHANGED users
           ELSE IF ~Exists(id)
           THEN Reply(404, "UserNotFound") /\ UNCHANGED users
           ELSE IF users[id].avatar /\ ~destroyed
           THEN \* cloudinary.uploader.destroy failed
                Reply(500, "InternalServerError") /\ UNCHANGED users
           ELSE /\ users' = [i \in DOMAIN users \ {id} |-> users[i]]
                /\ Reply(200, "UserDeleted")
  /\ UNCHANGED <<orders, NODE_ENV, unit, clock, ticks, issued, client, posts, req>>

\* PUT /:id
PutUser ==
  /\ AtHandler("PUT /:id")
  /\ \E uploaded \in BOOLEAN :
       LET id == req.id
           username == req.body.username
           email == req.body.email
           phone == req.body.phone
           role == req.body.role
           isActive == req.body.isActive
           password == req.body.password
           Refuse(status, message) ==
             Reply(status, message) /\ UNCHANGED users
       IN  IF id \notin ObjectIds THEN Refuse(400, "InvalidId")
           ELSE IF ~Exists(id) THEN Refuse(404, "UserNotFound")
           ELSE
             LET user == users[id]
                 updatedData ==
                   [user EXCEPT
                      !.username = IF Truthy(username) THEN username ELSE @,
                      !.email = IF Truthy(email) THEN email ELSE @,
                      !.phone = IF Truthy(phone) THEN phone ELSE @,
                      !.role = IF role # "" THEN role ELSE @,
                      !.isActive = IF isActive = "undefined" THEN @
                                   ELSE isActive = "true",
                      !.avatar = IF req.file THEN TRUE ELSE @,
                      !.password = IF Truthy(password)
                                   THEN HashPassword(password) ELSE @]
             IN  IF /\ Truthy(username) /\ username # user.username
                    /\ ByUsername(username) # {}
                 THEN Refuse(400, "UsernameTaken")
                 ELSE IF /\ Truthy(phone) /\ phone # user.phone
                         /\ \E i \in ByPhone(phone) : i # id
                 THEN Refuse(400, "PhoneTaken")
                 ELSE IF Truthy(email) /\ ~IsValidEmail(email)
                 THEN Refuse(400, "InvalidEmail")
                 ELSE IF Truthy(phone) /\ ~IsValidPhone(phone)
                 THEN Refuse(400, "InvalidPhone")
                 ELSE IF Truthy(password) /\ NotArray(IsValidPassword(password))
                 THEN Refuse(400, "InvalidPassword")
                 ELSE IF req.file /\ ~uploaded
                 THEN \* cloudinary.uploader.upload failed
                      Refuse(500, "AvatarUploadFailed")
                 ELSE \* the temporary file is unlinked after the upload;
                      \* await UserModel.findByIdAndUpdate(id, updatedData)
                      /\ users' = users
                      /\ res' = res
                      /\ pc' = "update"
                      /\ mw' = [mw EXCEPT !.ran = Append(@, "handler"),
                                          !.tmpFile = FALSE,
                                          !.updatedData = updatedData]
  /\ UNCHANGED <<orders, NODE_ENV, unit, clock, ticks, issued, client, posts, req>>

\* PUT /:id, from UserModel.findByIdAndUpdate(id, updatedData) on: the
\* fields of updatedData are written to the document as it is by then
PutUserUpdate ==
  /\ pc = "update"
  /\ LET id == req.id
         updatedData == mw.updatedData
         Sent(status, message) ==
           /\ res' = [res EXCEPT !.status = status, !.message = message]
           /\ pc' = "done"
           /\ mw' = [mw EXCEPT !.sent = Append(@, "handler")]
     IN  IF ~Exists(id)
         THEN \* the identity went away meanwhile: nothing is written
              Sent(200, "UserUpdated") /\ users' = users
         ELSE LET doc == [updatedData EXCEPT
                            !.rememberMe = users[id].rememberMe,
                            !.password = IF Truthy(req.body.password) THEN @
                                         ELSE users[id].password]
              IN  IF DuplicateKey(id, doc)
                  THEN \* the update rejects; handleError answers
                       Sent(500, "InternalServerError") /\ users' = users
                  ELSE \* updatedUser is read with .select("-password")
                       /\ res' = [res EXCEPT !.status = 200,
                                             !.message = "UserUpdated",
                                             !.user = SanitizedUser(doc)]
                       /\ pc' = "done"
                       /\ mw' = [mw EXCEPT !.sent = Append(@, "handler")]
                       /\ users' = [users EXCEPT ![id] = doc]
  /\ UNCHANGED <<orders, NODE_ENV, unit, clock, ticks, issued, client, posts, req>>

\* PUT /change-password/:id
ChangePassword ==
  /\ AtHandler("PUT /change-password/:id")
  /\ LET id == req.id
         currentPassword == req.body.currentPassword
         newPassword == req.body.newPassword
         Refuse(status, message) == Reply(status, message) /\ UNCHANGED users
     IN  IF ~Truthy(currentPassword) THEN Refuse(400, "CurrentPasswordRequired")
         ELSE IF ~Truthy(newPassword) THEN Refuse(400, "NewPasswordRequired")
         ELSE IF id \notin ObjectIds
         THEN \* findById rejects with a CastError
              Refuse(500, "ChangePasswordError")
         ELSE IF ~Exists(id) THEN Refuse(404, "UserNotFound")
         ELSE IF ~CheckPassword(currentPassword, users[id].password)
         THEN Refuse(400, "CurrentPasswordWrong")
         ELSE IF NotArray(IsValidPassword(newPassword))
         THEN Refuse(400, "InvalidNewPassword")
         ELSE /\ users' = [users EXCEPT
                             ![id].password = HashPassword(newPassword)]
              /\ Reply(200, "PasswordChanged")
  /\ UNCHANGED <<orders, NODE_ENV, unit, clock, ticks, issued, client, posts, req>>

\* DELETE /delete-user/:id
DeleteUserAndOrders ==
  /\ AtHandler("DELETE /delete-user/:id")
  /\ \E ordersDeleted \in BOOLEAN, destroyed \in BOOLEAN :
       LET id == req.id
           Refuse(status, message) ==
             Reply(status, message) /\ UNCHANGED <<users, orders>>
       IN  IF id \notin ObjectIds
           THEN \* findById rejects with a CastError
                Refuse(500, "DeleteUserError")
           ELSE IF ~Exists(id) THEN Refuse(404, "UserNotFound")
           ELSE IF id \in orders /\ ~ordersDeleted
           THEN \* OrderModel.deleteMany failed
                Refuse(500, "OrdersNotDeleted")
           ELSE IF users[id].avatar /\ ~destroyed
           THEN \* cloudinary.uploader.destroy failed after the orders went
                /\ orders' = orders \ {id}
                /\ users' = users
                /\ Reply(500, "AvatarNotDeleted")
           ELSE /\ orders' = orders \ {id}
                /\ users' = [i \in DOMAIN users \ {id} |-> users[i]]
                /\ Reply(200, "UserAndOrdersDeleted")
  /\ UNCHANGED <<NODE_ENV, unit, clock, ticks, issued, client, posts, req>>

----------------------------------------------------------------------------
(* Sign-in routes: no middleware of the auth core in front of them *)

\* res.cookie("token", token, ...) and the JSON answer of a sign-in
Issue(user) ==
  LET token == GenerateToken(user, clock)
  IN  /\ token \in issued \/ Cardinality(issued) < MaxIssued
      /\ issued' = issued \cup {token}
      /\ res' = [Cookie(Response(200, "SignedIn", "untouched", Undefined),
                        token)
                   EXCEPT !.user = SanitizedUser(user)]

\* a wrong password told apart from an unknown name
Refusal_Telling(body, found) ==
  IF ~Truthy(body.usernameOrPhone) THEN <<400, "UsernameOrPhoneRequired">>
  ELSE IF ~Truthy(body.password) THEN <<400, "PasswordRequired">>
  ELSE IF found = {} THEN <<400, "InvalidCredentials">>
  ELSE LET user == users[CHOOSE i \in found : TRUE]
       IN  IF ~CheckPassword(body.password, user.password)
           THEN <<400, "WrongPassword">>
           ELSE IF ~user.isActive THEN <<403, "AccountDisabled">>
           ELSE <<0, "">>

\* the active flag looked at before the password
Refusal_ActiveFirst(body, found) ==
  IF ~Truthy(body.usernameOrPhone) THEN <<400, "UsernameOrPhoneRequired">>
  ELSE IF ~Truthy(body.password) THEN <<400, "PasswordRequired">>
  ELSE IF found = {} THEN <<400, "InvalidCredentials">>
  ELSE LET user == users[CHOOSE i \in found : TRUE]
       IN  IF ~user.isActive THEN <<403, "AccountDisabled">>
           ELSE IF ~CheckPassword(body.password, user.password)
           THEN <<400, "InvalidCredentials">>
           ELSE <<0, "">>

\* the checks shared by POST /signin and POST /authentication/signin, up to
\* the active flag: the status and message of the refusal, or status 0
Refusal(body, found) ==
  IF ~Truthy(body.usernameOrPhone) THEN <<400, "UsernameOrPhoneRequired">>
  ELSE IF ~Truthy(body.password) THEN <<400, "PasswordRequired">>
  ELSE IF found = {} THEN <<400, "InvalidCredentials">>
  ELSE LET user == users[CHOOSE i \in found : TRUE]
       IN  IF ~CheckPassword(body.password, user.password)
           THEN <<400, "InvalidCredentials">>
           ELSE IF ~user.isActive THEN <<403, "AccountDisabled">>
           ELSE <<0, "">>

\* the history of a request answered by the last of the stages that ran
Answered(stages) ==
  [NoHistory EXCEPT !.ran = stages, !.nexts = SubSeq(stages, 1, Len(stages) - 1),
                    !.sent = <<stages[Len(stages)]>>]

\* UserModel.findOne(isPhone ? { phone } : { username })
Lookup(usernameOrPhone) ==
  IF IsPhone(usernameOrPhone)
  THEN ByPhone(usernameOrPhone) ELSE ByUsername(usernameOrPhone)

\* POST /signin (authLimiter, validateSignin, handler), for a body and an
\* outcome of the rate limiter out of the given ones
PostSignin(bodies, limits) ==
  /\ pc = "idle"
  /\ \E body \in bodies, limited \in limits :
       LET found == Lookup(body.usernameOrPhone)
           refusal == Refusal(body, found)
       IN  /\ req' = [Request("POST", <<"signin">>, Undefined, NoHeader, body,
                              FALSE) EXCEPT !.route = "POST /signin"]
           /\ IF limited
              THEN /\ res' = Response(429, "TooManyRequests", "untouched",
                                      Undefined)
                   /\ issued' = issued
                   /\ mw' = Answered(<<"authLimiter">>)
              ELSE IF ~ValidateSignin(body)
              THEN /\ res' = Response(400, "InvalidSigninData", "untouched",
                                      Undefined)
                   /\ issued' = issued
                   /\ mw' = Answered(<<"authLimiter", "validateSignin">>)
              ELSE /\ mw' = Answered(<<"authLimiter", "validateSignin",
                                       "handler">>)
                   /\ IF refusal[1] # 0
                      THEN /\ res' = Response(refusal[1], refusal[2],
                                              "untouched", Undefined)
                           /\ issued' = issued
                      ELSE Issue(users[CHOOSE i \in found : TRUE])
  /\ pc' = "done"
  /\ UNCHANGED <<users, orders, NODE_ENV, unit, clock, ticks, client, posts>>

Signin == PostSignin(SigninBodies, BOOLEAN)
\* the sign-ins that open a session
SessionSignin == PostSignin(SessionBodies, {FALSE})

\* the role check left out
NotAdmin_Never(user) == FALSE

\* user.role !== "admin"
NotAdmin(user) == user.role # "admin"

\* the preference of the request not taken over
Remember_Not(user, rememberMe) == user

\* user.rememberMe = rememberMe
Remember(user, rememberMe) == [user EXCEPT !.rememberMe = rememberMe]

\* POST /authentication/signin, for a body out of the given ones
PostAdminSignin(bodies) ==
  /\ pc = "idle"
  /\ \E body \in bodies :
       LET found == Lookup(body.usernameOrPhone)
           refusal == Refusal(body, found)
           id == CHOOSE i \in found : TRUE
       IN  /\ req' = [Request("POST", <<"authentication", "signin">>, Undefined,
                              NoHeader, body, FALSE)
                        EXCEPT !.route = "POST /authentication/signin"]
           /\ IF refusal[1] # 0
              THEN /\ res' = Response(refusal[1], refusal[2], "untouched", Undefined)
                   /\ UNCHANGED <<users, issued>>
              ELSE IF NotAdmin(users[id])
              THEN /\ res' = Response(403, "AdminOnly", "untouched", Undefined)
                   /\ UNCHANGED <<users, issued>>
              ELSE /\ users' = [users EXCEPT
                                  ![id] = Remember(@, body.rememberMe)]
                   /\ Issue(users'[id])
  /\ pc' = "done"
  /\ mw' = [NoHistory EXCEPT !.ran = <<"handler">>, !.sent = <<"handler">>]
  /\ UNCHANGED <<orders, NODE_ENV, unit, clock, ticks, client, posts>>

AdminSignin == PostAdminSignin(SigninBodies)
\* the admin sign-ins that open a session
SessionAdminSignin == PostAdminSignin(SessionBodies)

\* a client throws a token away, the cookie that holds it included
Discard ==
  /\ pc = "idle"
  /\ \E t \in issued :
       /\ issued' = issued \ {t}
       /\ client' = IF client.cookie = t THEN NoCookie ELSE client
  /\ UNCHANGED <<users, orders, NODE_ENV, unit, clock, ticks, posts, pc, req, res, mw>>

\* POST /signout: no middleware, the cookie the browser sent is not looked at
Signout ==
  /\ pc = "idle"
  /\ req' = [Request("POST", <<"signout">>, CookieSent, NoHeader, NoBody,
                     FALSE) EXCEPT !.route = "POST /signout"]
  /\ res' = ClearCookie(Response(200, "SignedOut", "untouched", Undefined))
  /\ pc' = "done"
  /\ mw' = [NoHistory EXCEPT !.ran = <<"handler">>, !.sent = <<"handler">>]
  /\ UNCHANGED <<users, orders, NODE_ENV, unit, clock, ticks, issued, client, posts>>

----------------------------------------------------------------------------
(* POST /signup and POST /authWithGoogle, one step per await *)

SignupBody(username, phone, fullName, password, confirmPassword) ==
  [NoBody EXCEPT !.username = username, !.phone = phone, !.fullName = fullName,
                 !.password = password, !.confirmPassword = confirmPassword]
SignupBodies ==
  {SignupBody(Robert, PhoneNew, Robert, PwBob, PwBob),
   SignupBody(Robert, Phone034, Robert, PwBob, PwBob),
   SignupBody(Carol, PhoneNew, Carol, PwBob, PwBob),
   SignupBody(Bob, PhoneNew, Robert, PwBob, PwBob),
   SignupBody(Robert, PhoneNew, Robert, PwWeak, PwWeak),
   SignupBody(Robert, PhoneNew, Robert, PwNoSpecial, PwNoSpecial),
   SignupBody(Robert, PhoneNew, Robert, PwShort, PwShort),
   SignupBody(Robert, PhoneNew, Robert, PwBob, PwAlice),
   SignupBody(Robert, PhoneAbroad, Robert, PwBob, PwBob),
   SignupBody(Empty, PhoneNew, Robert, PwBob, PwBob)}

GoogleBody(fullName, email, images) ==
  [NoBody EXCEPT !.fullName = fullName, !.email = email, !.images = images]
GoogleBodies ==
  {GoogleBody(AlBo, MailNew, TRUE), GoogleBody(AlBo, MailOther, FALSE),
   GoogleBody(Empty, MailNew, FALSE), GoogleBody(AlBo, MailBob, FALSE)}

\* `034${Math.floor(1000000 + Math.random() * 9000000)}`
RandomPhones == {Phone034, Phone034b}
\* Math.random().toString(36).slice(-8)
RandomPasswords == {<<"k", "9", "z", "q", "1", "w", "e", "7">>}

\* `temp_${Date.now()}@example.com`
TempEmail(now) == <<"temp_", ToString(now), "@example.com">>

\* `temp_${fullName.split(" ").join("").toLowerCase()}`
FederatedUsername(fullName) ==
  <<"t", "e", "m", "p", "_">> \o ToLowerCase(RemoveBlanks(fullName))

\* the checks of the handler of POST /signup before its first await: the
\* status, message and errors of the refusal, or status 0
SignupChecks(body) ==
  IF ~Truthy(body.username) THEN <<400, "UsernameRequired", <<>> >>
  ELSE IF ~Truthy(body.phone) THEN <<400, "PhoneRequired", <<>> >>
  ELSE IF ~Truthy(body.password) THEN <<400, "PasswordRequired", <<>> >>
  ELSE IF ~Truthy(body.fullName) THEN <<400, "FullNameRequired", <<>> >>
  ELSE IF ~Truthy(body.confirmPassword)
  THEN <<400, "ConfirmPasswordRequired", <<>> >>
  ELSE IF body.password # body.confirmPassword
  THEN <<400, "PasswordsDiffer", <<>> >>
  ELSE IF ~IsValidPhone(body.phone) THEN <<400, "InvalidPhone", <<>> >>
  ELSE IF Len(IsValidPassword(body.password)) > 0
  THEN <<400, "InvalidPassword", IsValidPassword(body.password)>>
  ELSE <<0, "", <<>> >>

\* a refusal that sets a session cookie all the same
PostAnswered_WithCookie(s, status, message, errors, err) ==
  posts' = [posts EXCEPT
              ![s].pc = "done", ![s].err = err,
              ![s].res = [Cookie(Response(status, message, "untouched",
                                          Undefined),
                                 GenerateToken(User(FreshId, posts[s].body.username,
                                                    posts[s].body.phone, Empty,
                                                    NoPassword, "user", TRUE,
                                                    FALSE, FALSE), clock))
                            EXCEPT !.errors = errors]]

\* the request in slot s is answered
PostAnswered(s, status, message, errors, err) ==
  posts' = [posts EXCEPT
              ![s].pc = "done", ![s].err = err,
              ![s].res = [Response(status, message, "untouched", Undefined)
                            EXCEPT !.errors = errors]]
\* the request in slot s goes on to its next await
PostAwaits(s, stage) == posts' = [posts EXCEPT ![s].pc = stage]

\* the client keeps the token of the response while it has room for it
Kept(token) ==
  IF Cardinality(issued) < MaxIssued THEN issued \cup {token} ELSE issued

\* the identity has been saved: generateToken, res.cookie and the answer
\* with the given user
PostIssued(s, doc, status, message, user) ==
  LET token == GenerateToken(doc, clock)
  IN  /\ users' = Inserted(doc)
      /\ issued' = Kept(token)
      /\ posts' = [posts EXCEPT
                     ![s].pc = "done",
                     ![s].res =
                       [Cookie(Response(status, message, "untouched",
                                        Undefined), token)
                          EXCEPT !.user = user]]

\* POST /signup: authLimiter, validateSignup and the handler up to
\* UserModel.findOne({ username }), for a body and an outcome of the rate
\* limiter out of the given ones
PostSignup(bodies, limits) ==
  \E s \in Slots, body \in bodies, limited \in limits :
    LET details == ValidateSignup(body)
        checks == SignupChecks(body)
        Ran3 == <<"authLimiter", "validateSignup", "handler">>
        Received(ran) ==
          [NoPost EXCEPT !.route = "POST /signup", !.body = body, !.ran = ran]
        Refused(ran, status, message, errors) ==
          [Received(ran) EXCEPT
             !.pc = "done",
             !.res = [Response(status, message, "untouched", Undefined)
                        EXCEPT !.errors = errors]]
    IN  /\ posts[s].pc = "idle"
        /\ posts' = [posts EXCEPT ![s] =
             IF limited
             THEN Refused(<<"authLimiter">>, 429, "TooManyRequests", <<>>)
             ELSE IF details # <<>>
             THEN Refused(<<"authLimiter", "validateSignup">>, 400,
                          "InvalidSignupData", details)
             ELSE IF checks[1] # 0
             THEN Refused(Ran3, checks[1], checks[2], checks[3])
             ELSE [Received(Ran3) EXCEPT !.pc = "findUsername"]]
        /\ UNCHANGED <<users, orders, NODE_ENV, unit, clock, ticks, issued, client, pc, req,
                       res, mw>>

SignupStart == PostSignup(SignupBodies, BOOLEAN)
\* the sign-up of one new identity
NewSignup == PostSignup({SignupBody(Robert, Phone034, Robert, PwBob, PwBob)}, {FALSE})

\* the slots that stand at the given await of the given route
At(route, stage) ==
  {s \in Slots : posts[s].route = route /\ posts[s].pc = stage}

\* const existingUser = await UserModel.findOne({ username })
SignupFindUsername ==
  \E s \in At("POST /signup", "findUsername") :
    /\ IF ByUsername(posts[s].body.username) # {}
       THEN PostAnswered(s, 400, "UsernameTaken", <<>>, "taken")
       ELSE PostAwaits(s, "findPhone")
    /\ UNCHANGED <<users, orders, NODE_ENV, unit, clock, ticks, issued, client, pc, req, res,
                   mw>>

\* const existingPhone = await UserModel.findOne({ $or: [{ username }, { phone }] })
SignupFindPhone ==
  \E s \in At("POST /signup", "findPhone") :
    /\ IF ByUsername(posts[s].body.username) \cup ByPhone(posts[s].body.phone)
            # {}
       THEN PostAnswered(s, 400, "PhoneTaken", <<>>, "taken")
       ELSE PostAwaits(s, "hashPassword")
    /\ UNCHANGED <<users, orders, NODE_ENV, unit, clock, ticks, issued, client, pc, req, res,
                   mw>>

\* const hashedPassword = await hashPassword(password); a rejection is
\* caught and answered by handleError
SignupHashPassword ==
  \E s \in At("POST /signup", "hashPassword"), failed \in BOOLEAN :
    /\ IF failed
       THEN PostAnswered(s, 500, "InternalServerError", <<>>, "hashFailed")
       ELSE PostAwaits(s, "save")
    /\ UNCHANGED <<users, orders, NODE_ENV, unit, clock, ticks, issued, client, pc, req, res,
                   mw>>

\* await newUser.save(), and the rest of the handler; a rejection of the
\* store is caught and answered by handleError
SignupSave ==
  \E s \in At("POST /signup", "save"), storeUp \in BOOLEAN :
    LET body == posts[s].body
        newUser ==
          User(FreshId, body.username, body.phone, TempEmail(clock),
               HashPassword(body.password), SchemaDefaults.role,
               SchemaDefaults.isActive, SchemaDefaults.rememberMe,
               SchemaDefaults.avatar)
    IN  /\ NewIds \ DOMAIN users # {}
        /\ IF ~storeUp
           THEN /\ PostAnswered(s, 500, "InternalServerError", <<>>,
                                "storeFailed")
                /\ UNCHANGED <<users, issued>>
           ELSE IF DuplicateKey(newUser.id, newUser)
           THEN /\ PostAnswered(s, 500, "InternalServerError", <<>>,
                                "duplicateKey")
                /\ UNCHANGED <<users, issued>>
           ELSE PostIssued(s, newUser, 201, "SignedUp", SanitizedUser(newUser))
        /\ UNCHANGED <<orders, NODE_ENV, unit, clock, ticks, client, pc, req, res, mw>>

\* POST /authWithGoogle: no middleware; up to UserModel.findOne({ email }),
\* for a body out of the given ones
PostAuthWithGoogle(bodies) ==
  \E s \in Slots, body \in bodies :
    /\ posts[s].pc = "idle"
    /\ posts' = [posts EXCEPT ![s] =
         [NoPost EXCEPT !.route = "POST /authWithGoogle", !.body = body,
                        !.ran = <<"handler">>, !.pc = "findEmail"]]
    /\ UNCHANGED <<users, orders, NODE_ENV, unit, clock, ticks, issued, client, pc, req, res,
                   mw>>

GoogleStart == PostAuthWithGoogle(GoogleBodies)

\* let existingUser = await UserModel.findOne({ email }): an identity that
\* is found is signed in; otherwise the new one is built, up to its save
GoogleFindEmail ==
  \E s \in At("POST /authWithGoogle", "findEmail"), randomPhone \in RandomPhones :
    LET body == posts[s].body
        found == ByEmail(body.email)
        existingUser == users[CHOOSE i \in found : TRUE]
        token == GenerateToken(existingUser, clock)
    IN  /\ IF found # {}
           THEN /\ issued' = Kept(token)
                /\ posts' = [posts EXCEPT
                               ![s].pc = "done",
                               ![s].res =
                                 [Cookie(Response(200, "SignedIn", "untouched",
                                                  Undefined), token)
                                    EXCEPT !.user = Json(existingUser)]]
           ELSE IF body.fullName = Empty
           THEN \* fullName is undefined: fullName.split throws
                /\ PostAnswered(s, 500, "GoogleError", <<>>, "typeError")
                /\ issued' = issued
           ELSE /\ posts' = [posts EXCEPT ![s].pc = "save",
                                          ![s].phone = randomPhone]
                /\ issued' = issued
        /\ UNCHANGED <<users, orders, NODE_ENV, unit, clock, ticks, client, pc, req, res, mw>>

\* await existingUser.save() of the new identity, and the rest of the handler
GoogleSave ==
  \E s \in At("POST /authWithGoogle", "save"), storeUp \in BOOLEAN,
     randomPassword \in RandomPasswords :
    LET body == posts[s].body
        newUser ==
          User(FreshId, FederatedUsername(body.fullName), posts[s].phone,
               body.email, [kind |-> "clear", text |-> randomPassword], "user",
               TRUE, SchemaDefaults.rememberMe, body.images)
    IN  /\ NewIds \ DOMAIN users # {}
        /\ IF ~storeUp
           THEN /\ PostAnswered(s, 500, "GoogleError", <<>>, "storeFailed")
                /\ UNCHANGED <<users, issued>>
           ELSE IF DuplicateKey(newUser.id, newUser)
           THEN /\ PostAnswered(s, 500, "GoogleError", <<>>, "duplicateKey")
                /\ UNCHANGED <<users, issued>>
           ELSE \* user: existingUser, the document as it was saved
                PostIssued(s, newUser, 200, "SignedIn", Json(newUser))
        /\ UNCHANGED <<orders, NODE_ENV, unit, clock, ticks, client, pc, req, res, mw>>

\* the response of slot s has gone out
PostClose ==
  \E s \in Slots :
    /\ posts[s].pc = "done"
    /\ client' = SetCookie(posts[s].route, posts[s].res)
    /\ posts' = [posts EXCEPT ![s] = NoPost]
    /\ UNCHANGED <<users, orders, NODE_ENV, unit, clock, ticks, issued, pc, req, res, mw>>

----------------------------------------------------------------------------
(* The response has gone out; the request context is dropped *)

Close ==
  /\ pc = "done"
  /\ pc' = "idle"
  /\ client' = SetCookie(req.route, res)
  /\ req' = NoRequest
  /\ res' = NoResponse
  /\ mw' = NoHistory
  /\ UNCHANGED <<users, orders, NODE_ENV, unit, clock, ticks, issued, posts>>

----------------------------------------------------------------------------
(* Specifications *)

\* the user routes, requests carrying the session cookie alone
Next ==
  \/ Discard
  \/ Signin
  \/ AdminSignin
  \/ StartRequestWithBody
  \/ Upload
  \/ VerifyToken
  \/ CheckAdminOrOwner
  \/ GetUsers
  \/ GetById
  \/ DeleteUser
  \/ PutUser
  \/ PutUserUpdate
  \/ ChangePassword
  \/ DeleteUserAndOrders
  \/ Close

Spec == Init /\ [][Next]_vars

\* the middleware chain under every kind of credential, tokens expiring
NextAuth ==
  \/ Discard
  \/ TickHour
  \/ Signin
  \/ StartRequest
  \/ Upload
  \/ VerifyToken
  \/ CheckAdminOrOwner
  \/ GetUsers
  \/ GetById
  \/ DeleteUser
  \/ PutUser
  \/ PutUserUpdate
  \/ ChangePassword
  \/ DeleteUserAndOrders
  \/ Close

SpecAuth == Init /\ [][NextAuth]_vars

\* sessions over time: sign-ins, role changes and the clock
NextTime ==
  \/ Discard
  \/ Tick
  \/ SessionSignin
  \/ SessionAdminSignin
  \/ StartSessionRequest
  \/ Upload
  \/ VerifyToken
  \/ CheckAdminOrOwner
  \/ GetUsers
  \/ PutUser
  \/ PutUserUpdate
  \/ Close

SpecTime == Init /\ [][NextTime]_vars

\* the life of a session: sign-in, requests, sign-out, change of password,
\* deletion of the account, expiry
NextSession ==
  \/ Discard
  \/ TickHour
  \/ SessionSignin
  \/ Signout
  \/ StartClientRequest
  \/ VerifyToken
  \/ CheckAdminOrOwner
  \/ GetUsers
  \/ ChangePassword
  \/ DeleteUserAndOrders
  \/ Close

SpecSession == Init /\ [][NextSession]_vars

\* the sign-in of the owner of a profile
OwnerSignin == PostSignin(OwnerBodies, {FALSE})

\* sign-ups side by side
NextSignup ==
  \/ SignupStart
  \/ SignupFindUsername
  \/ SignupFindPhone
  \/ SignupHashPassword
  \/ SignupSave
  \/ PostClose

SpecSignup == Init /\ [][NextSignup]_vars

\* the identity store: sign-ups and federated sign-ins side by side with
\* each other and with changes of a profile
NextStore ==
  \/ OwnerSignin
  \/ StartProfileRequest
  \/ Upload
  \/ VerifyToken
  \/ CheckAdminOrOwner
  \/ PutUser
  \/ PutUserUpdate
  \/ Close
  \/ NewSignup
  \/ SignupFindUsername
  \/ SignupFindPhone
  \/ SignupHashPassword
  \/ SignupSave
  \/ GoogleStart
  \/ GoogleFindEmail
  \/ GoogleSave
  \/ PostClose

SpecStore == Init /\ [][NextStore]_vars

\* the list of users is asked for with the cookie the browser holds, or
\* with a cookie that holds no token of the server
StartListRequest ==
  \E cookie \in {CookieSent, Garbage} :
    Receive("GET", <<"users">>, cookie, NoHeader, NoBody, FALSE)

\* the federated sign-in of a new and of a stored identity
GoogleSignin ==
  PostAuthWithGoogle({GoogleBody(AlBo, MailNew, TRUE),
                      GoogleBody(AlBo, MailBob, FALSE)})

\* the session cookie under either NODE_ENV: every route that sets it and
\* every place that clears it
NextCookie ==
  \/ SessionSignin
  \/ SessionAdminSignin
  \/ Signout
  \/ StartListRequest
  \/ VerifyToken
  \/ CheckAdminOrOwner
  \/ GetUsers
  \/ Close
  \/ NewSignup
  \/ SignupFindUsername
  \/ SignupFindPhone
  \/ SignupHashPassword
  \/ SignupSave
  \/ GoogleSignin
  \/ GoogleFindEmail
  \/ GoogleSave
  \/ PostClose

SpecCookie == InitEnv /\ [][NextCookie]_vars

\* a session cookie as time passes: past the expiry of its token, and
\* past its own maxAge
NextStale ==
  \/ Tick
  \/ SessionSignin
  \/ StartClientRequest
  \/ VerifyToken
  \/ CheckAdminOrOwner
  \/ GetUsers
  \/ ChangePassword
  \/ DeleteUserAndOrders
  \/ Close

SpecStale == Init /\ [][NextStale]_vars

\* the three authenticating middleware of the auth core under every kind
\* of credential, tokens expiring
NextCore ==
  \/ Discard
  \/ TickHour
  \/ SessionSignin
  \/ StartCoreRequest
  \/ AuthJwt
  \/ IsAdmin
  \/ Protected
  \/ StartListRequest
  \/ VerifyToken
  \/ CheckAdminOrOwner
  \/ GetUsers
  \/ Close

SpecCore == Init /\ [][NextCore]_vars

\* federated sign-ins side by side: of one new email under two names, and
\* of the emails of the stored identities
GoogleRace ==
  PostAuthWithGoogle({GoogleBody(AlBo, MailNew, TRUE),
                      GoogleBody(Carol, MailNew, FALSE),
                      GoogleBody(AlBo, MailBob, FALSE),
                      GoogleBody(AlBo, MailAlice, FALSE)})

NextGoogle ==
  \/ GoogleRace
  \/ GoogleFindEmail
  \/ GoogleSave
  \/ PostClose

SpecGoogle == Init /\ [][NextGoogle]_vars

\* the federated sign-in of a stored identity
GoogleKnown == PostAuthWithGoogle({GoogleBody(AlBo, MailBob, FALSE)})

\* sign-ins of every kind while an admin switches accounts off and on
NextInactive ==
  \/ OwnerSignin
  \/ SessionAdminSignin
  \/ StartSessionRequest
  \/ Upload
  \/ VerifyToken
  \/ CheckAdminOrOwner
  \/ GetUsers
  \/ PutUser
  \/ PutUserUpdate
  \/ Close
  \/ GoogleKnown
  \/ GoogleFindEmail
  \/ PostClose

SpecInactive == Init /\ [][NextInactive]_vars

----------------------------------------------------------------------------
(* hashPassword and checkPassword called by themselves *)

\* a password of 72 characters followed by the given one
RECURSIVE Repeat(_, _)
Repeat(s, n) == IF n = 0 THEN <<>> ELSE s \o Repeat(s, n - 1)
Long(c) == Repeat(PwBob, 9) \o <<c>>

\* the plaintexts the helpers are called with
Plaintexts ==
  {PwAlice, PwBob, PwWeak, PwNoSpecial, PwShort, Repeat(PwBob, 9),
   Long("a"), Long("b")}

\* hashPassword(plain) is about to be called, and checkPassword(password,
\* hashedPassword) after it
InitPassword ==
  /\ Start("development")
  /\ \E plain \in Plaintexts, password \in Plaintexts :
       unit = [NoCall EXCEPT !.pc = "hashPassword", !.plain = plain,
                             !.password = password]

\* const hashedPassword = await hashPassword(plain)
CallHashPassword ==
  /\ unit.pc = "hashPassword"
  /\ unit' = [unit EXCEPT !.hashedPassword = HashPassword(unit.plain),
                          !.pc = "checkPassword"]
  /\ UNCHANGED <<users, orders, NODE_ENV, clock, ticks, issued, client, posts,
                 pc, req, res, mw>>

\* const isMatch = await checkPassword(password, hashedPassword): the
\* promise resolves to true or to false
CallCheckPassword ==
  /\ unit.pc = "checkPassword"
  /\ unit' = [unit EXCEPT
                !.isMatch = IF CheckPassword(unit.password, unit.hashedPassword)
                            THEN "true" ELSE "false",
                !.pc = "done"]
  /\ UNCHANGED <<users, orders, NODE_ENV, clock, ticks, issued, client, posts,
                 pc, req, res, mw>>

NextPassword ==
  \/ CallHashPassword
  \/ CallCheckPassword

SpecPassword == InitPassword /\ [][NextPassword]_vars

----------------------------------------------------------------------------
(* Properties *)

Ran(stage) == \E i \in DOMAIN mw.ran : mw.ran[i] = stage
Times(seq, stage) == Cardinality({i \in DOMAIN seq : seq[i] = stage})
GuardedRoutes ==
  {"GET /users", "DELETE /:id", "PUT /:id", "PUT /change-password/:id",
   "DELETE /delete-user/:id"}

\* C1: the stored role of an identity changes only in a request whose
\* authenticated claims carry role admin; a PUT /:id of a non-admin owner
\* with a role in the body leaves the stored role as it was.
\* The code does not keep it: see C1 in the results.
C1_RoleSetOnlyByAdmin ==
  [][\A i \in DOMAIN users :
       (i \in DOMAIN users' /\ users'[i].role # users[i].role)
         => req.user.role = "admin"]_vars

\* C2: checkAdminOrOwner calls next exactly when the claims' role is admin
\* or the claims' id is the id of the route; otherwise it answers 403 and
\* does not call next. A route without an id parameter admits admins only.
C2_AdminOrOwner ==
  Ran("checkAdminOrOwner") =>
    LET target == IF req.route = "GET /users" THEN "undefined"
                  ELSE req.path[Len(req.path)]
        allowed == req.user.role = "admin" \/ req.user.id = target
    IN  /\ req.user.set
        /\ allowed =>
             /\ Times(mw.nexts, "checkAdminOrOwner") = 1
             /\ Times(mw.sent, "checkAdminOrOwner") = 0
             /\ pc = "handler" \/ Ran("handler")
        /\ ~allowed =>
             /\ Times(mw.nexts, "checkAdminOrOwner") = 0
             /\ mw.sent = <<"checkAdminOrOwner">>
             /\ res.status = 403
             /\ pc = "done"
             /\ ~Ran("handler")

\* a user is refused on the route that has no id parameter
C2_Witness ==
  /\ req.route = "GET /users"
  /\ req.user.role = "user"
  /\ mw.sent = <<"checkAdminOrOwner">>
  /\ res.status = 403

\* C3: on the routes that use checkAdminOrOwner, the check and the handler
\* run only in a request that verifyToken has accepted; once verifyToken has
\* rejected a request, neither of them runs for it.
C3_AuthenticationFirst ==
  req.route \in GuardedRoutes =>
    /\ (pc \in {"checkAdminOrOwner", "handler", "crashed"}
        \/ Ran("checkAdminOrOwner") \/ Ran("handler"))
         => /\ Times(mw.nexts, "verifyToken") = 1
            /\ Times(mw.sent, "verifyToken") = 0
            /\ req.user.set
    /\ Times(mw.sent, "verifyToken") > 0
         => /\ pc = "done"
            /\ ~Ran("checkAdminOrOwner")
            /\ ~Ran("handler")

\* verifyToken has turned down a request for DELETE /delete-user/:id
C3_Witness ==
  /\ req.route = "DELETE /delete-user/:id"
  /\ mw.sent = <<"verifyToken">>
  /\ res.status = 401
  /\ pc = "done"

Accepted == Times(mw.nexts, "verifyToken") = 1 /\ Times(mw.sent, "verifyToken") = 0
Rejected == Times(mw.nexts, "verifyToken") = 0 /\ Times(mw.sent, "verifyToken") = 1
SameClaims(claims, t) ==
  claims.id = t.id /\ claims.username = t.username /\ claims.role = t.role

\* C4 as claimed: whenever the cookie is present, the cookie is the token
\* that is verified, and the header is used only when the cookie is absent.
\* A cookie that is present with an empty value refutes it: see C4_CookieFirst.
C4_CookieWheneverPresent ==
  (Ran("verifyToken") /\ req.cookie.form # "undefined") =>
    /\ Accepted <=> JwtVerifyError(req.cookie, clock) = "none"
    /\ Accepted => SameClaims(req.user, req.cookie)

\* C4, amended: verifyToken verifies the cookie token whenever the cookie is
\* present with a non-empty value, whatever the Authorization header holds,
\* and it verifies the second word of the header only when the cookie is
\* absent or empty.
C4_CookieFirst ==
  Ran("verifyToken") =>
    /\ req.cookie.form \in {"jwt", "garbage"} =>
         /\ Accepted <=> JwtVerifyError(req.cookie, clock) = "none"
         /\ Accepted => SameClaims(req.user, req.cookie)
    /\ (/\ req.cookie.form \in {"undefined", "empty"}
        /\ req.authorization.present
        /\ req.authorization.scheme # "") =>
         /\ Accepted <=> JwtVerifyError(req.authorization.token, clock) = "none"
         /\ Accepted => SameClaims(req.user, req.authorization.token)

\* an invalid cookie is turned down although the header holds a valid token
C4_Witness ==
  /\ req.cookie.form \in {"jwt", "garbage"}
  /\ JwtVerifyError(req.cookie, clock) # "none"
  /\ req.authorization.present
  /\ req.authorization.scheme = "Bearer"
  /\ JwtVerifyError(req.authorization.token, clock) = "none"
  /\ mw.sent = <<"verifyToken">>
  /\ res.status = 401

\* C5: a request with no token in the cookie and no Authorization header is
\* answered 401 "please sign in" by verifyToken, which then neither calls
\* next, nor sets req.user, nor touches the cookie.
C5_NoToken ==
  (/\ Ran("verifyToken")
   /\ req.cookie.form \in {"undefined", "empty"}
   /\ ~req.authorization.present) =>
    /\ res.status = 401
    /\ res.message = "PleaseSignIn"
    /\ res.cookie = "untouched"
    /\ mw.sent = <<"verifyToken">>
    /\ Times(mw.nexts, "verifyToken") = 0
    /\ ~req.user.set
    /\ pc = "done"

\* a request without cookie and without header has been answered
C5_Witness ==
  /\ Ran("verifyToken")
  /\ req.cookie = Undefined
  /\ ~req.authorization.present
  /\ res.message = "PleaseSignIn"
  /\ pc = "done"

\* C6: when the verification of the token fails, verifyToken clears the
\* session cookie and answers 401 with one and the same body, whether the
\* token is expired, wrongly signed or malformed; it does not call next.
C6_UniformRejection ==
  (/\ Ran("verifyToken")
   /\ req.cookie.form \in {"jwt", "garbage"}
   /\ JwtVerifyError(req.cookie, clock) # "none") =>
    /\ mw.err = JwtVerifyError(req.cookie, clock)
    /\ mw.err \in {"Expired", "SignatureInvalid", "Malformed"}
    /\ res.status = 401
    /\ res.message = "SessionInvalid"
    /\ res.cookie = "cleared"
    /\ mw.sent = <<"verifyToken">>
    /\ Times(mw.nexts, "verifyToken") = 0

\* an expired token has been turned down
C6_Witness ==
  /\ mw.err = "Expired"
  /\ req.cookie \in issued
  /\ res.status = 401
  /\ res.cookie = "cleared"

\* C7: when verifyToken accepts a token, req.user holds the id, username
\* and role that generateToken put into that token, next has been called
\* once and verifyToken has sent nothing; in every request verifyToken
\* either calls next or answers 401, never both and never neither.
C7_ClaimsAttached ==
  /\ Ran("verifyToken") =>
       /\ Accepted \/ Rejected
       /\ Accepted =>
            /\ req.user.set
            /\ \E t \in issued :
                 /\ t \in {req.cookie, req.authorization.token}
                 /\ SameClaims(req.user, t)
       /\ Rejected =>
            /\ res.status = 401
            /\ ~req.user.set
            /\ pc = "done"
  /\ res.cookie = "set" =>
       /\ res.token \in issued
       /\ res.token.id \in DOMAIN users
       /\ SameClaims(res.token, users[res.token.id])

\* verifyToken has just accepted the token of the admin
C7_Witness ==
  /\ pc = "checkAdminOrOwner"
  /\ Accepted
  /\ req.user.role = "admin"
  /\ req.cookie \in issued

Lifetime(t) == t.exp - t.iat

\* C8: a token issued for an identity without remember-me lives for the
\* default window, one issued with remember-me for 7 days; verifyToken
\* accepts a token at every instant before its lifetime has passed (so a
\* 7-day token at 6 days) and rejects it as expired from then on.
C8_Expiry ==
  /\ res.cookie = "set" =>
       /\ res.token.iat = clock
       /\ Lifetime(res.token) =
            IF users[res.token.id].rememberMe THEN SevenDays ELSE TokenExpiration
  /\ (Ran("verifyToken") /\ req.cookie \in issued) =>
       /\ Lifetime(req.cookie) \in {TokenExpiration, SevenDays}
       /\ Accepted <=> clock - req.cookie.iat < Lifetime(req.cookie)
       /\ Rejected <=> clock - req.cookie.iat >= Lifetime(req.cookie)
       /\ Rejected => mw.err = "Expired" /\ res.status = 401

\* a 7-day token is accepted 6 days after it was issued
C8_Witness ==
  /\ Ran("verifyToken")
  /\ Accepted
  /\ req.cookie \in issued
  /\ Lifetime(req.cookie) = SevenDays
  /\ clock = req.cookie.iat + 6 * Day

\* C9: every token lives 7 days if the request that issued it asked for
\* remember-me and the default window otherwise, whatever preference an
\* earlier request has stored.
\* The code does not keep it: see C9 in the results.
C9_LifetimeByRequest ==
  res.cookie = "set" =>
    Lifetime(res.token) =
      IF req.body.rememberMe THEN SevenDays ELSE TokenExpiration

\* the identity behind a token is gone, has another role or is inactive
Stale(t) ==
  \/ t.id \notin DOMAIN users
  \/ users[t.id].role # t.role
  \/ ~users[t.id].isActive

\* C10: a token issued before the identity's role was changed or its active
\* flag cleared is accepted until it expires and yields the role it was
\* issued with; a token carries the stored role of the moment it is issued.
C10_StaleClaims ==
  /\ (Ran("verifyToken") /\ req.cookie \in issued /\ Stale(req.cookie)) =>
       /\ Accepted <=> clock < req.cookie.exp
       /\ Accepted => req.user.set /\ req.user.role = req.cookie.role
  /\ res.cookie = "set" =>
       /\ res.token.role = users[res.token.id].role
       /\ users[res.token.id].isActive

\* a token is accepted with the role user after the stored role has
\* become admin
C10_Witness ==
  /\ Accepted
  /\ req.cookie \in issued
  /\ req.cookie.id \in DOMAIN users
  /\ req.cookie.role = "user"
  /\ users[req.cookie.id].role = "admin"
  /\ req.user.role = "user"

\* C11: nothing the server does ends a token: a token that was issued and
\* has not expired is accepted by verifyToken, from the cookie or, without a
\* cookie, from the Authorization header, also after a sign-out, after a
\* change of password and after the deletion of its identity.
C11_NoRevocation ==
  Ran("verifyToken") =>
    /\ (req.cookie \in issued /\ clock < req.cookie.exp) =>
         Accepted /\ SameClaims(req.user, req.cookie)
    /\ (/\ req.cookie = Undefined
        /\ req.authorization.present
        /\ req.authorization.scheme = "Bearer"
        /\ req.authorization.token \in issued
        /\ clock < req.authorization.token.exp) =>
         Accepted /\ SameClaims(req.user, req.authorization.token)

\* after a sign-out the token is accepted from the Authorization header
C11_Witness ==
  /\ client.signedOut
  /\ req.cookie = Undefined
  /\ req.authorization.token \in issued
  /\ Accepted
  /\ req.user.set

\* the token of an identity that has been deleted is still
\* accepted
C11_WitnessDeleted ==
  /\ Accepted
  /\ req.cookie \in issued
  /\ req.cookie.id \notin DOMAIN users

\* C12: a sign-out leaves the browser without session cookie, and the
\* request to a protected route that the browser sends next, with no
\* Authorization header, is answered 401 by verifyToken and reaches neither
\* checkAdminOrOwner nor the handler.
C12_SignedOut ==
  /\ client.signedOut => client.cookie = Undefined
  /\ (/\ Ran("verifyToken")
      /\ client.signedOut
      /\ req.cookie = client.cookie
      /\ ~req.authorization.present) =>
       /\ res.status = 401
       /\ res.message = "PleaseSignIn"
       /\ mw.sent = <<"verifyToken">>
       /\ Times(mw.nexts, "verifyToken") = 0
       /\ ~Ran("checkAdminOrOwner")
       /\ ~Ran("handler")
       /\ pc = "done"

\* the browser has signed out and its next request has been turned down
C12_Witness ==
  /\ client.signedOut
  /\ issued # {}
  /\ req.route \in GuardedRoutes
  /\ req.cookie = Undefined
  /\ ~req.authorization.present
  /\ res.status = 401
  /\ pc = "done"

SigninRoutes == {"POST /signin", "POST /authentication/signin"}
\* the identity a sign-in request names, and the checks it fails
Named == Lookup(req.body.usernameOrPhone)
NamedUser == users[CHOOSE i \in Named : TRUE]
LookupMiss == Named = {}
PasswordMismatch ==
  Named # {} /\ ~CheckPassword(req.body.password, NamedUser.password)
AtSigninChecks ==
  /\ req.route \in SigninRoutes
  /\ Ran("handler")
  /\ Truthy(req.body.usernameOrPhone)
  /\ Truthy(req.body.password)
InvalidCredentials == Response(400, "InvalidCredentials", "untouched", Undefined)

\* C13: both sign-in routes answer an unknown name and a wrong password
\* with one and the same response, status 400 and the same message, without
\* token and without cookie, so that the two cannot be told apart.
C13_InvalidCredentials ==
  (AtSigninChecks /\ (LookupMiss \/ PasswordMismatch)) =>
    res = InvalidCredentials

\* a known name with a wrong password has been answered
C13_Witness ==
  /\ AtSigninChecks
  /\ req.route = "POST /signin"
  /\ PasswordMismatch
  /\ res.status = 400

\* an unknown name has been answered
C13_WitnessMiss ==
  /\ AtSigninChecks
  /\ req.route = "POST /authentication/signin"
  /\ LookupMiss
  /\ res.status = 400

\* C14: the active flag counts only once the password has matched: an
\* inactive identity is answered 403, without token and cookie, when the
\* password is right, and with the general 400 when it is wrong.
C14_ActiveAfterPassword ==
  (AtSigninChecks /\ Named # {} /\ ~NamedUser.isActive) =>
    IF CheckPassword(req.body.password, NamedUser.password)
    THEN res = Response(403, "AccountDisabled", "untouched", Undefined)
    ELSE res = InvalidCredentials

\* an inactive identity has given the right password
C14_Witness ==
  /\ AtSigninChecks
  /\ req.route = "POST /signin"
  /\ Named # {}
  /\ ~NamedUser.isActive
  /\ CheckPassword(req.body.password, NamedUser.password)
  /\ res.status = 403

\* an inactive identity has given a wrong password
C14_WitnessWrong ==
  /\ AtSigninChecks
  /\ Named # {}
  /\ ~NamedUser.isActive
  /\ ~CheckPassword(req.body.password, NamedUser.password)
  /\ res.status = 400

\* C15: POST /authentication/signin issues a token and sets the cookie
\* only for an identity whose stored role is admin; an active identity of
\* another role that gives the right password is answered 403 without token
\* and cookie, and no stored field of it, the remember-me preference
\* included, is changed.
C15_AdminOnly ==
  [][(pc = "idle" /\ req'.route = "POST /authentication/signin") =>
       LET body == req'.body
           found == Lookup(body.usernameOrPhone)
       IN  /\ \A i \in DOMAIN users :
                users[i].role # "admin" =>
                  /\ i \in DOMAIN users'
                  /\ users'[i] = users[i]
                  /\ (/\ found = {i}
                      /\ Truthy(body.usernameOrPhone)
                      /\ CheckPassword(body.password, users[i].password)
                      /\ users[i].isActive) =>
                       /\ res' = Response(403, "AdminOnly", "untouched", Undefined)
                       /\ issued' = issued
           /\ res'.cookie = "set" =>
                /\ res'.token.role = "admin"
                /\ users[res'.token.id].role = "admin"
                /\ found = {res'.token.id}]_vars

\* an identity that is no admin, with a stored remember-me preference, has
\* given its right password and has been answered 403
C15_Witness ==
  /\ req.route = "POST /authentication/signin"
  /\ Named # {}
  /\ NamedUser.role = "user"
  /\ NamedUser.isActive
  /\ CheckPassword(req.body.password, NamedUser.password)
  /\ NamedUser.rememberMe /\ ~req.body.rememberMe
  /\ res.status = 403

\* C16: after a successful POST /authentication/signin the identity stores
\* the remember-me value of the request, and the token of the response was
\* generated from it: it lives 7 days when the value is true and the
\* default window when it is false or absent.
C16_RememberMePersisted ==
  (req.route = "POST /authentication/signin" /\ res.cookie = "set") =>
    /\ res.status = 200
    /\ users[res.token.id].rememberMe = req.body.rememberMe
    /\ res.token.iat = clock
    /\ Lifetime(res.token) =
         IF req.body.rememberMe THEN SevenDays ELSE TokenExpiration

\* an admin has signed in and asked for remember-me
C16_Witness ==
  /\ req.route = "POST /authentication/signin"
  /\ res.cookie = "set"
  /\ req.body.rememberMe
  /\ users[res.token.id].rememberMe
  /\ Lifetime(res.token) = SevenDays

\* the sign-up in slot s has been answered by its handler or by the
\* validation in front of it
SignupAnswered(s) ==
  /\ posts[s].route = "POST /signup"
  /\ posts[s].pc = "done"
  /\ Len(posts[s].ran) > 1
\* the fields of a sign-up other than the password are in order
OtherFieldsValid(body) ==
  /\ ValidateSignup([body EXCEPT !.password = PwBob,
                                 !.confirmPassword = PwBob]) = <<>>
  /\ body.confirmPassword = body.password
  /\ IsValidPhone(body.phone)

\* the classes that an entry of the errors of a response names: the Joi
\* message for its pattern speaks of capital, small letter and digit at once
Names(entry) ==
  CASE entry \in {"minLength", "password.min"} -> {"minLength"}
    [] entry = "password.pattern" -> {"upper", "lower", "digit"}
    [] OTHER -> {entry}

\* C17: a sign-up whose password misses one or more of the classes
\* (minimum length, capital, small letter, digit, special character) is
\* answered 400 with one entry for each class it misses and none for the
\* classes it has; for "abc12345" the capital and the special character.
\* The code does not keep it: see C17 in the results.
C17_MissingClassesEnumerated ==
  \A s \in Slots :
    (/\ SignupAnswered(s)
     /\ OtherFieldsValid(posts[s].body)
     /\ IsValidPassword(posts[s].body.password) # <<>>) =>
      LET missing == Range(IsValidPassword(posts[s].body.password))
          errors == posts[s].res.errors
      IN  /\ posts[s].res.status = 400
          /\ Len(errors) = Cardinality(missing)
          /\ \A c \in missing : \E k \in DOMAIN errors : Names(errors[k]) = {c}

UniqueUsernames ==
  \A i, j \in DOMAIN users : i # j => users[i].username # users[j].username
UniquePhones ==
  \A i, j \in DOMAIN users : i # j => users[i].phone # users[j].phone

\* C18: of two sign-ups with the same username that run side by side at
\* most one succeeds, whatever the order of their queries and inserts; the
\* other one is refused by the check before the insert or by the store at
\* the insert (unless hashing or the store failed it before), gets no
\* cookie, and the store never holds the username twice.
C18_OneSignupPerUsername ==
  /\ UniqueUsernames
  /\ \A s, t \in Slots :
       (/\ s # t
        /\ SignupAnswered(s) /\ SignupAnswered(t)
        /\ posts[s].body.username = posts[t].body.username
        /\ posts[s].res.status = 201
        /\ ValidateSignup(posts[t].body) = <<>>
        /\ SignupChecks(posts[t].body)[1] = 0) =>
         /\ posts[t].res.status \in {400, 500}
         /\ posts[t].res.cookie = "untouched"
         /\ posts[t].err \in {"taken", "duplicateKey", "hashFailed", "storeFailed"}

\* of two sign-ups with one username, one has succeeded and the other has
\* lost the race at the insert
C18_Witness ==
  \E s, t \in Slots :
    /\ SignupAnswered(s) /\ SignupAnswered(t)
    /\ posts[s].body.username = posts[t].body.username
    /\ posts[s].res.status = 201
    /\ posts[t].err = "duplicateKey"

\* C19: in every state of the identity store, after sign-ups, federated
\* sign-ins and changes of a profile in any interleaving, no two identities
\* have the same username and no two have the same phone.
C19_UniqueUsernameAndPhone == UniqueUsernames /\ UniquePhones

\* a change of a profile has passed its checks and has then been refused
\* by the store, because a new identity took the username meanwhile
C19_Witness ==
  /\ req.route = "PUT /:id"
  /\ pc = "done"
  /\ res.status = 500
  /\ Truthy(req.body.username)
  /\ \E i \in NewIds \cap DOMAIN users : users[i].username = req.body.username

\* a federated sign-in has been refused by the store for its random phone
C19_WitnessPhone ==
  \E s \in Slots :
    /\ posts[s].route = "POST /authWithGoogle"
    /\ posts[s].err = "duplicateKey"
    /\ ByUsername(FederatedUsername(posts[s].body.fullName)) = {}
    /\ ByPhone(posts[s].phone) # {}

\* C20: a sign-up that is refused because its username or phone is taken
\* is answered 400, also when it is the store that refuses it at the
\* insert; 500 answers a failure of the store or of the hashing only.
\* The code does not keep it: see C20 in the results.
C20_ConflictIs400 ==
  \A s \in Slots :
    SignupAnswered(s) =>
      /\ posts[s].err \in {"taken", "duplicateKey"} => posts[s].res.status = 400
      /\ posts[s].res.status = 500 =>
           posts[s].err \in {"hashFailed", "storeFailed"}

----------------------------------------------------------------------------
(* Stored passwords *)

\* C21: in every reachable state the password of every persisted identity
\* is the output of the hash function, never a clear text, whether the
\* identity came from sign-up or federated sign-in or was changed by a
\* profile update or a password change.
\* The code does not keep it: see C21 in the results.
C21_PasswordsHashed ==
  \A i \in DOMAIN users : users[i].password.kind = "bcrypt"

----------------------------------------------------------------------------
(* What the answers carry *)

\* C22: no answer of an account handler (sign-up, sign-in, admin sign-in,
\* federated sign-in, profile read and update) carries the password field
\* of the identity: the user it returns is always the sanitized one.
\* The code does not keep it: see C22 in the results.
C22_NoPasswordInResponse ==
  /\ res.user.password = NoPassword
  /\ \A s \in Slots : posts[s].res.user.password = NoPassword

\* C23: the stored password of an identity is replaced only by a request
\* that presented the current password of that identity and had it
\* verified against the stored hash; no other request of the user routes,
\* PUT /:id with a password included, changes it.
\* The code does not keep it: see C23 in the results.
C23_CurrentPasswordVerified ==
  [][\A i \in DOMAIN users \cap DOMAIN users' :
       users'[i].password # users[i].password =>
         /\ req.route = "PUT /change-password/:id"
         /\ req.id = i
         /\ CheckPassword(req.body.currentPassword, users[i].password)]_vars

\* the password misses the minimum length or a required class of character
Weak(password) == Len(IsValidPassword(password)) > 0

\* C24: a new password given to the password change or to the profile
\* update is held to the strength policy of sign-up: when it misses the
\* minimum length or a required class of character, the request is
\* refused with 400 (where nothing else is wrong with it) and the stored
\* password is left as it is.
\* The code does not keep it: see C24 in the results.
C24_WeakPasswordRejected ==
  [][/\ ( /\ AtHandler("PUT /change-password/:id")
          /\ Truthy(req.body.newPassword)
          /\ Weak(req.body.newPassword) )
        => /\ users' = users
           /\ res'.status >= 400
           /\ ( /\ Truthy(req.body.currentPassword)
                /\ Exists(req.id)
                /\ CheckPassword(req.body.currentPassword,
                                 users[req.id].password) )
              => res'.status = 400
     /\ ( /\ AtHandler("PUT /:id")
          /\ Truthy(req.body.password)
          /\ Weak(req.body.password) )
        => /\ pc' = "done"
           /\ res'.status >= 400
           /\ Exists(req.id) => res'.status = 400]_vars

----------------------------------------------------------------------------
(* Sign-up: what a refusal leaves behind *)

\* the request in slot s is answered by this step
AnsweredNow(s) == posts[s].pc # "done" /\ posts'[s].pc = "done"

\* C25: a sign-up that is refused, for whatever reason, persists no
\* identity, issues no token and sets no session cookie; sign-up sets the
\* cookie only in the answer of the request that also persisted the new
\* identity, with its password hashed.
C25_RefusedSignupLeavesNothing ==
  [][\A s \in Slots :
       /\ (AnsweredNow(s) /\ posts'[s].route = "POST /signup") =>
            LET body == posts'[s].body
                answer == posts'[s].res
            IN  IF answer.status = 201
                THEN /\ answer.cookie = "set"
                     /\ \E i \in DOMAIN users' \ DOMAIN users :
                          /\ users'[i].username = body.username
                          /\ users'[i].password = HashPassword(body.password)
                          /\ users'[i].password.kind = "bcrypt"
                          /\ answer.token.id = i
                ELSE /\ users' = users
                     /\ issued' = issued
                     /\ answer.cookie = "untouched"
                     /\ answer.token = Undefined
       /\ ( /\ posts[s].pc = "done" /\ posts'[s].pc = "idle"
            /\ posts[s].route = "POST /signup"
            /\ posts[s].res.status # 201 ) => client' = client]_vars

\* a sign-up has been refused after its look-ups, another one before them
C25_Witness ==
  \E s, t \in Slots :
    /\ SignupAnswered(s) /\ posts[s].err = "taken"
    /\ posts[s].res.status = 400 /\ posts[s].res.cookie = "untouched"
    /\ SignupAnswered(t) /\ posts[t].res.message = "InvalidSignupData"

\* a sign-up has been accepted: its answer sets the cookie
C25_WitnessAccepted ==
  \E s \in Slots :
    /\ SignupAnswered(s) /\ posts[s].res.status = 201
    /\ posts[s].res.cookie = "set"
    /\ \E i \in DOMAIN users : posts[s].res.token.id = i

----------------------------------------------------------------------------
(* The session cookie *)

\* the answers being written: that of the request in the middleware chain
\* and those of the sign-ups and federated sign-ins in flight
Answers == {res} \cup {posts[s].res : s \in Slots}

\* C26: every session cookie set by sign-up, sign-in, admin sign-in and
\* federated sign-in is named token, is httpOnly, is secure exactly in
\* production, has sameSite None in production and Lax otherwise, and has
\* a maxAge of 7 days whatever the expiry of the token it carries; every
\* clearing of the cookie (sign-out, a failure of verifyToken) uses the
\* same name, httpOnly, secure and sameSite.
C26_CookieContract ==
  \A answer \in Answers :
    /\ answer.cookie \in {"set", "cleared"} =>
         /\ answer.name = "token"
         /\ answer.options.httpOnly = TRUE
         /\ answer.options.secure = (NODE_ENV = "production")
         /\ answer.options.sameSite =
              IF NODE_ENV = "production" THEN "None" ELSE "Lax"
    /\ answer.cookie = "set" =>
         answer.options.maxAge = 7 * 24 * 60 * 60 * 1000

\* in production a cookie is being set that carries a token of one hour
C26_Witness ==
  /\ NODE_ENV = "production"
  /\ \E answer \in Answers :
       /\ answer.cookie = "set"
       /\ answer.token.exp - answer.token.iat = Hour
       /\ answer.options.secure

\* a cookie set by each of the four routes, and cleared by verifyToken
C26_WitnessRoutes ==
  /\ \E s \in Slots :
       /\ posts[s].res.cookie = "set"
       /\ posts[s].route \in {"POST /signup", "POST /authWithGoogle"}
  /\ \/ res.cookie = "set" /\ req.route = "POST /authentication/signin"
     \/ res.cookie = "cleared" /\ req.route = "GET /users"

\* the request in flight carries the cookie the browser holds, whose token
\* has expired while the maxAge of the cookie has not passed
StaleCookie ==
  /\ pc # "idle"
  /\ req.route \in GuardedRoutes
  /\ req.cookie.form = "jwt"
  /\ req.cookie = client.cookie
  /\ clock >= req.cookie.exp
  /\ clock < client.expires

\* C27: the cookie outlives its token: a request that presents, between
\* the expiry of the token and the 7-day maxAge of the cookie, the cookie
\* with the expired token is refused by verifyToken with 401, the cookie
\* is cleared and the handler is never called; the stale cookie
\* authenticates no request.
C27_StaleCookieRejected ==
  StaleCookie =>
    /\ pc \in {"verifyToken", "done"}
    /\ ~req.user.set
    /\ ~Ran("checkAdminOrOwner")
    /\ ~Ran("handler")
    /\ Times(mw.nexts, "verifyToken") = 0
    /\ pc = "done" =>
         /\ mw.sent = <<"verifyToken">>
         /\ res.status = 401
         /\ res.cookie = "cleared"

\* verifyToken has turned down a cookie an hour after it was set, six days
\* before its maxAge has passed
C27_Witness ==
  /\ StaleCookie
  /\ pc = "done"
  /\ res.status = 401
  /\ clock = req.cookie.exp
  /\ client.expires = req.cookie.iat + SevenDays

\* the authenticating middleware of the auth core
Authenticators == {"verifyToken", "authJwt", "isAdmin"}

\* C28: whenever an authenticating middleware of the auth core
\* (verifyToken, authJwt, isAdmin) finds the token of the session cookie
\* invalid or expired, the answer that refuses the request also clears
\* the session cookie.
\* The code does not keep it: see C28 in the results.
C28_InvalidCookieCleared ==
  ( /\ pc = "done"
    /\ Len(mw.sent) = 1
    /\ mw.sent[1] \in Authenticators
    /\ ~Falsy(req.cookie)
    /\ mw.err \in {"Malformed", "SignatureInvalid", "Expired"} )
  => res.cookie = "cleared"

----------------------------------------------------------------------------
(* The password helpers *)

\* C29: for every valid plaintext p, checkPassword(p, hashPassword(p)) is
\* true, and for all p1 # p2, checkPassword(p1, hashPassword(p2)) is
\* false; a mismatch is the value false, not an error.
\* The code does not keep it: see C29 in the results.
C29_CheckPasswordAlgebra ==
  unit.pc = "done" =>
    /\ unit.isMatch \in {"true", "false"}
    /\ (unit.password = unit.plain /\ ~Weak(unit.plain)) =>
         unit.isMatch = "true"
    /\ unit.password # unit.plain => unit.isMatch = "false"

----------------------------------------------------------------------------
(* Federated sign-in *)

\* no two identities have one email
UniqueEmails ==
  \A i, j \in DOMAIN users : users[i].email = users[j].email => i = j

\* C30: federated sign-in creates a new identity (role user, active) only
\* when no identity has the given email and otherwise leaves the store as
\* it is; in both cases it answers 200 with a token and the cookie set;
\* after any interleaving of federated sign-ins with one email, at most
\* one identity has that email.
\* The code does not keep it: see C30 in the results.
C30_FederatedSignin ==
  [][/\ \A s \in Slots :
          ( /\ AnsweredNow(s)
            /\ posts'[s].route = "POST /authWithGoogle"
            /\ posts'[s].err = "none" ) =>
            LET email == posts'[s].body.email
                answer == posts'[s].res
            IN  /\ answer.status = 200
                /\ answer.cookie = "set"
                /\ answer.token.id \in DOMAIN users'
                /\ users'[answer.token.id].email = email
                /\ IF ByEmail(email) # {}
                   THEN users' = users
                   ELSE \E i \in DOMAIN users' \ DOMAIN users :
                          /\ users'[i].email = email
                          /\ users'[i].role = "user"
                          /\ users'[i].isActive
                          /\ DOMAIN users' = DOMAIN users \cup {i}
     /\ UniqueEmails => UniqueEmails']_vars

----------------------------------------------------------------------------
(* The middleware and the store *)

\* the payload of a token, read off the token alone
Payload(t) ==
  [set |-> TRUE, id |-> t.id, username |-> t.username, role |-> t.role,
   iat |-> t.iat, exp |-> t.exp]

\* C31: verifyToken and checkAdminOrOwner neither read nor write the
\* identity store and change no identity: all a step of theirs does,
\* besides answering or calling next, is to set req.user (from the token
\* alone) on success and to clear the session cookie when the
\* verification fails.
C31_MiddlewareLeaveStore ==
  [][/\ pc = "verifyToken" =>
          /\ users' = users /\ orders' = orders /\ issued' = issued
          /\ \/ req' = req
             \/ /\ pc' \notin {"done", "verifyToken"}
                /\ \E t \in {req.cookie, req.authorization.token} :
                     req' = [req EXCEPT !.user = Payload(t)]
          /\ res'.token = res.token /\ res'.user = res.user
          /\ res'.cookie \in {res.cookie, "cleared"}
          /\ res'.cookie # res.cookie =>
               /\ pc' = "done" /\ res'.status = 401 /\ req' = req
               /\ mw'.err \in {"Malformed", "SignatureInvalid", "Expired"}
     /\ pc = "checkAdminOrOwner" =>
          /\ users' = users /\ orders' = orders /\ issued' = issued
          /\ req' = req
          /\ res'.cookie = res.cookie /\ res'.token = res.token
          /\ res'.user = res.user
          /\ (pc' \notin {"done", "crashed"}) <=>
               /\ req.user.set
               /\ req.user.role = "admin" \/ req.user.id = req.id]_vars

\* both middleware have let a request through whose token claims a role
\* the store no longer has for its identity
C31_Witness ==
  /\ Ran("verifyToken") /\ Ran("checkAdminOrOwner")
  /\ pc = "handler"
  /\ req.user.set
  /\ req.user.id \in DOMAIN users
  /\ users[req.user.id].role # req.user.role

----------------------------------------------------------------------------
(* The Authorization header *)

\* C32: the header fallback takes a token only from an Authorization
\* header of the form Bearer <token>: a header with another scheme (Basic
\* <token>) or with no scheme counts as carrying no token, and the
\* request is answered as one without a token.
\* The code does not keep it: see C32 in the results.
C32_BearerOnly ==
  ( /\ \E stage \in Authenticators : Ran(stage)
    /\ Falsy(req.cookie)
    /\ req.authorization.present
    /\ req.authorization.scheme # "Bearer" )
  => /\ ~req.user.set
     /\ mw.nexts = <<>>
     /\ res.status = 401
     /\ res.message \in {"PleaseSignIn", "TokenMissing"}

----------------------------------------------------------------------------
(* The order of the pipeline *)

\* C33: on every protected user route verifyToken is the first step of
\* the pipeline: for a request that verifyToken turns down no other step
\* with side effects has run, in particular not the upload of the avatar
\* file of PUT /:id.
\* The code does not keep it: see C33 in the results.
C33_AuthenticatorFirst ==
  (req.route \in GuardedRoutes /\ Rejected)
  => /\ \A i \in DOMAIN mw.ran :
          mw.ran[i] = "verifyToken" \/ (mw.ran[i] = "upload" /\ ~req.file)
     /\ ~mw.tmpFile

----------------------------------------------------------------------------
(* GET /me *)

\* C34: a GET /me request with a valid token reaches the handler of /me
\* and is answered with the stored identity (without its password) whose
\* id is the id claim of the token, or with 404 if that identity is gone;
\* no route registered earlier (GET /:id) answers it instead.
\* The code does not keep it: see C34 in the results.
C34_MeReachesItsHandler ==
  ( /\ pc = "done"
    /\ req.method = "GET" /\ req.path = <<"me">>
    /\ req.cookie \in issued
    /\ JwtVerifyError(req.cookie, clock) = "none" )
  => /\ req.route = "GET /me"
     /\ IF req.cookie.id \in DOMAIN users
        THEN /\ res.status = 200
             /\ res.user = SanitizedUser(users[req.cookie.id])
        ELSE res.status = 404

----------------------------------------------------------------------------
(* Who is issued a token *)

\* C35: no flow issues a token or sets the session cookie for an identity
\* whose active flag is false when the token is issued: not the password
\* sign-in, not the admin sign-in, not the federated sign-in of an
\* identity that exists already.
\* The code does not keep it: see C35 in the results.
C35_NoTokenForInactive ==
  [][/\ (res.cookie # "set" /\ res'.cookie = "set") =>
          /\ res'.token.id \in DOMAIN users
          /\ users[res'.token.id].isActive
     /\ \A s \in Slots :
          ( /\ AnsweredNow(s)
            /\ posts'[s].res.cookie = "set"
            /\ posts'[s].res.token.id \in DOMAIN users ) =>
            users[posts'[s].res.token.id].isActive]_vars

\* C36: a token for an identity that existed before the request is issued
\* only in a request in which checkPassword succeeded against the stored
\* hash of that identity; in particular no token with the role admin goes
\* to a requester who did not present the password of that admin.
\* The code does not keep it: see C36 in the results.
C36_TokenAfterCheckPassword ==
  [][/\ (res.cookie # "set" /\ res'.cookie = "set") =>
          /\ res'.token.id \in DOMAIN users
          /\ CheckPassword(req'.body.password, users[res'.token.id].password)
     /\ \A s \in Slots :
          ( /\ AnsweredNow(s)
            /\ posts'[s].res.cookie = "set"
            /\ posts'[s].res.token.id \in DOMAIN users ) =>
            CheckPassword(posts'[s].body.password,
                          users[posts'[s].res.token.id].password)]_vars

----------------------------------------------------------------------------
(* Sign-up, then sign-in *)

\* a username of ten digits: alphanum, 3 to 30 characters long
Numeric == <<"2", "0", "2", "6", "1", "1", "0", "1", "0", "0">>

\* sign-ups that POST /signup accepts: a username of letters, one of
\* digits, and one that is the phone of the same sign-up
RoundTripBodies ==
  {SignupBody(Robert, PhoneNew, Robert, PwBob, PwBob),
   SignupBody(Numeric, Phone034, Robert, PwBob, PwBob),
   SignupBody(Phone034b, Phone034b, Carol, PwBob, PwBob)}
RoundTripSignup == PostSignup(RoundTripBodies, {FALSE})

\* POST /signin with the username and the password of a sign-up
RoundTripSignin ==
  PostSignin({[NoBody EXCEPT !.usernameOrPhone = body.username,
                             !.password = body.password] :
                body \in RoundTripBodies}, {FALSE})

NextRoundTrip ==
  \/ Discard
  \/ RoundTripSignup
  \/ SignupFindUsername
  \/ SignupFindPhone
  \/ SignupHashPassword
  \/ SignupSave
  \/ PostClose
  \/ RoundTripSignin
  \/ Close

SpecRoundTrip == Init /\ [][NextRoundTrip]_vars

\* C37: every identity that a successful sign-up created can sign in
\* through POST /signin with the username and the password of its sign-up
\* (while it is active and unchanged): neither the validation of the
\* sign-in nor the classification of the name as username or phone (10 to
\* 15 digits is a phone) keeps the lookup from finding it.
\* The code does not keep it: see C37 in the results.
C37_SignupThenSignin ==
  [][( /\ pc = "idle" /\ pc' = "done"
       /\ req'.route = "POST /signin"
       /\ \E i \in NewIds \cap DOMAIN users :
            /\ users[i].username = req'.body.usernameOrPhone
            /\ CheckPassword(req'.body.password, users[i].password)
            /\ users[i].isActive )
     => /\ res'.status = 200
        /\ res'.cookie = "set"
        /\ res'.token.id \in NewIds \cap DOMAIN users
        /\ users[res'.token.id].username = req'.body.usernameOrPhone]_vars

----------------------------------------------------------------------------
(* isAdmin *)

\* C38: isAdmin calls next and sets req.user only for a valid token whose
\* role claim is admin; it answers 401 for a missing, invalid or expired
\* token and 403 for a valid token with another role, and in both
\* refusals it leaves req.user unset and does not call next.
C38_IsAdminOutcomes ==
  [][pc = "isAdmin" =>
       LET token == OrElse(req.cookie, SecondWord(req.authorization))
           valid == ~Falsy(token) /\ JwtVerifyError(token, clock) = "none"
           refused(status) ==
             /\ pc' = "done"
             /\ res'.status = status
             /\ res'.cookie = res.cookie
             /\ mw'.sent = Append(mw.sent, "isAdmin")
             /\ mw'.nexts = mw.nexts
             /\ req' = req
             /\ ~req'.user.set
       IN  /\ ~req.user.set
           /\ IF ~valid THEN refused(401)
              ELSE IF token.role # "admin" THEN refused(403)
              ELSE /\ pc' = "handler"
                   /\ mw'.nexts = Append(mw.nexts, "isAdmin")
                   /\ mw'.sent = mw.sent
                   /\ res' = res
                   /\ req'.user.set
                   /\ req'.user.role = "admin"
                   /\ req'.user.id = token.id]_vars

\* isAdmin has called next for a valid token with the role admin, with
\* req.user set from it
C38_Witness ==
  /\ req.route = "isAdmin"
  /\ pc = "handler"
  /\ mw.nexts = <<"isAdmin">>
  /\ req.user.set
  /\ req.user.role = "admin"

\* isAdmin has answered 403 to a valid token of a user
C38_WitnessForbidden ==
  /\ req.route = "isAdmin"
  /\ pc = "done"
  /\ res.status = 403
  /\ mw.sent = <<"isAdmin">>
  /\ ~req.user.set

\* isAdmin has answered 401 to an expired token of an admin
C38_WitnessExpired ==
  /\ req.route = "isAdmin"
  /\ pc = "done"
  /\ res.status = 401
  /\ mw.err = "Expired"
  /\ req.cookie.form = "jwt"
  /\ req.cookie.role = "admin"
  /\ ~req.user.set

----------------------------------------------------------------------------
(* DELETE /delete-user/:id *)

\* C39: DELETE /delete-user/:id is all or nothing: either the identity
\* and all of its orders are deleted and the answer is 200, or the
\* identity and its orders are left as they were and the answer is an
\* error; a failure while the avatar is deleted never leaves the identity
\* in the store with its orders gone.
\* The code does not keep it: see C39 in the results.
C39_DeleteAllOrNothing ==
  [][AtHandler("DELETE /delete-user/:id") =>
       \/ /\ res'.status = 200
          /\ req.id \notin DOMAIN users'
          /\ req.id \notin orders'
       \/ /\ res'.status >= 400
          /\ users' = users
          /\ orders' = orders]_vars

====
